---- MODULE Spec2Model ----
(***************************************************************************)
(* A model of the Move assistant of src/MoveAI.ts: the MoveAI facade       *)
(* (analyzeCode, generateCode, explainConcept, reviewCode, getContext),    *)
(* its context object, and the Token and NFT contracts its generators      *)
(* emit, run under Move's global-storage rules.                            *)
(*                                                                         *)
(* A TypeScript string is a sequence of one-character strings, so that     *)
(* String.prototype.includes, toLowerCase, template interpolation and the  *)
(* regular expressions of analyzeCode are computed character by character. *)
(***************************************************************************)
EXTENDS Integers, Sequences, FiniteSets, TLC

VARIABLES
    heap,       \* the objects of the JavaScript heap: reference -> MoveContext
    held,       \* what the caller keeps of getContext(): a reference, or NoRef
    lastOp,     \* the operation that ran last
    arg,        \* the argument of the call: the string a single call is made with, or
                \* the arguments of the last Move transaction
    params,     \* the params argument of that call (generateCode)
    ret,        \* what the last operation returned
    balances,   \* Token contract: Balance.value at each address that holds a Balance
    tokenInfo,  \* Token contract: the TokenInfo at each address that holds one
    collections,\* NFT contract: the NFTCollection at each address that holds one
    status      \* how the last Move transaction ended: "ok" or an abort code

vars == <<heap, held, lastOp, arg, params, ret, balances, tokenInfo, collections, status>>

facadeVars == <<heap, held, lastOp, arg, params, ret>>
moveVars == <<balances, tokenInfo, collections, status>>

----------------------------------------------------------------------------
(* Bounds of the model.                                                    *)

\* fragments a caller joins into one source text for analyzeCode
MaxCodeFrags == 2
\* fragments joined into one intent for generateCode
MaxIntentFrags == 2
\* fragments joined into one source text for reviewCode
MaxReviewFrags == 3
\* fragments joined into one concept for explainConcept
MaxConceptFrags == 3
\* the length up to which a caller grows a list of the object getContext returned
MaxCallerLen == 2
\* the largest u64 of the Move runs (a narrow stand-in for 2^64 - 1)
MaxU64 == 3
\* the most items one NFT collection is grown to
MaxMint == 3

----------------------------------------------------------------------------
(* Strings.                                                                *)

UpperChars == <<"A","B","C","D","E","F","G","H","I","J","K","L","M","N","O","P","Q","R","S","T","U","V","W","X","Y","Z">>
LowerChars == <<"a","b","c","d","e","f","g","h","i","j","k","l","m","n","o","p","q","r","s","t","u","v","w","x","y","z">>
DigitChars == <<"0","1","2","3","4","5","6","7","8","9">>

Range(s) == {s[i] : i \in 1..Len(s)}

\* String.prototype.toLowerCase, on one character
LowerChar(c) ==
    IF \E i \in 1..Len(UpperChars) : UpperChars[i] = c
    THEN LowerChars[CHOOSE i \in 1..Len(UpperChars) : UpperChars[i] = c]
    ELSE c

\* String.prototype.toLowerCase
toLowerCase(s) == [i \in 1..Len(s) |-> LowerChar(s[i])]

\* whether needle stands in s at (1-based) position p
MatchAt(s, needle, p) ==
    /\ p >= 1
    /\ p + Len(needle) - 1 <= Len(s)
    /\ \A i \in 1..Len(needle) : s[p + i - 1] = needle[i]

\* String.prototype.includes
includes(s, needle) == \E p \in 1..(Len(s) + 1) : MatchAt(s, needle, p)

\* Array.prototype.includes
arrayIncludes(a, x) == \E i \in 1..Len(a) : a[i] = x

\* the regular-expression classes \s and \w (over the characters of the model)
IsSpace(c) == c \in {" ", "\t", "\n"}
IsWord(c) == c \in Range(UpperChars) \cup Range(LowerChars) \cup Range(DigitChars) \cup {"_"}

\* the longest run of \s (of \w) in s that starts at position p: its length
RECURSIVE SpaceRun(_, _)
SpaceRun(s, p) == IF p <= Len(s) /\ IsSpace(s[p]) THEN 1 + SpaceRun(s, p + 1) ELSE 0
RECURSIVE WordRun(_, _)
WordRun(s, p) == IF p <= Len(s) /\ IsWord(s[p]) THEN 1 + WordRun(s, p + 1) ELSE 0

\* all joins of at most n of the fragments
RECURSIVE Joins(_, _)
Joins(frags, n) ==
    IF n = 0 THEN {<<>>}
    ELSE LET shorter == Joins(frags, n - 1)
         IN  shorter \cup {s \o f : s \in shorter, f \in frags}

----------------------------------------------------------------------------
(* The context object and analyzeCode.                                     *)

\* the reference the constructor stores in this.context
CtxRef == 1
NoRef == 0

\* new MoveAI(): this.context
EmptyContext == [modules |-> <<>>, structs |-> <<>>, functions |-> <<>>]

\* this.context, read through the facade's reference
context == heap[CtxRef]

NoMatch == [found |-> FALSE, capture |-> <<>>, next |-> 0]

\* /module\s+(\w+::\w+)/ tried at position p: \s+ and \w+ are greedy, and
\* giving characters back cannot help, \s, \w and ":" being disjoint
ModuleMatchAt(s, p) ==
    LET kw == <<"m","o","d","u","l","e">>
        a  == p + Len(kw)
        b  == a + SpaceRun(s, a)
        c  == b + WordRun(s, b)
        d  == c + 2
        e  == d + WordRun(s, d)
    IN  IF /\ MatchAt(s, kw, p)
           /\ b > a
           /\ c > b
           /\ MatchAt(s, <<":",":">>, c)
           /\ e > d
        THEN [found |-> TRUE, capture |-> SubSeq(s, b, e - 1), next |-> e]
        ELSE NoMatch

\* /struct\s+(\w+)/ tried at position p
StructMatchAt(s, p) ==
    LET kw == <<"s","t","r","u","c","t">>
        a  == p + Len(kw)
        b  == a + SpaceRun(s, a)
        c  == b + WordRun(s, b)
    IN  IF MatchAt(s, kw, p) /\ b > a /\ c > b
        THEN [found |-> TRUE, capture |-> SubSeq(s, b, c - 1), next |-> c]
        ELSE NoMatch

\* fun\s+(\w+) tried at position p
FunMatchAt(s, p) ==
    LET kw == <<"f","u","n">>
        a  == p + Len(kw)
        b  == a + SpaceRun(s, a)
        c  == b + WordRun(s, b)
    IN  IF MatchAt(s, kw, p) /\ b > a /\ c > b
        THEN [found |-> TRUE, capture |-> SubSeq(s, b, c - 1), next |-> c]
        ELSE NoMatch

\* /(?:public\s+)?fun\s+(\w+)/ tried at position p: with the optional group
\* first, without it when that fails
FuncMatchAt(s, p) ==
    LET kw   == <<"p","u","b","l","i","c">>
        a    == p + Len(kw)
        b    == a + SpaceRun(s, a)
        grp == IF MatchAt(s, kw, p) /\ b > a THEN FunMatchAt(s, b) ELSE NoMatch
    IN  IF grp.found THEN grp ELSE FunMatchAt(s, p)

\* which of the three regular expressions
RegexMatchAt(kind, s, p) ==
    CASE kind = "modules"   -> ModuleMatchAt(s, p)
      [] kind = "structs"   -> StructMatchAt(s, p)
      [] kind = "functions" -> FuncMatchAt(s, p)

\* regex.exec(code) with the g flag: the leftmost match at or after lastIndex
RECURSIVE exec(_, _, _)
exec(kind, s, lastIndex) ==
    IF lastIndex > Len(s) THEN NoMatch
    ELSE LET m == RegexMatchAt(kind, s, lastIndex)
         IN  IF m.found THEN m ELSE exec(kind, s, lastIndex + 1)

\* a push that leaves out the includes test
PushAlways(list, x) == Append(list, x)

\* if (!list.includes(match[1])) list.push(match[1])
PushIfNew(list, x) == IF arrayIncludes(list, x) THEN list ELSE Append(list, x)

\* while ((match = regex.exec(code)) !== null) { ... }
RECURSIVE ScanLoop(_, _, _, _)
ScanLoop(kind, s, lastIndex, list) ==
    LET m == exec(kind, s, lastIndex)
    IN  IF m.found THEN ScanLoop(kind, s, m.next, PushIfNew(list, m.capture))
        ELSE list

\* analyzeCode(code): the context after the three loops
analyzeCode(ctx, code) ==
    [modules   |-> ScanLoop("modules", code, 1, ctx.modules),
     structs   |-> ScanLoop("structs", code, 1, ctx.structs),
     functions |-> ScanLoop("functions", code, 1, ctx.functions)]

\* getContext(): return this.context
getContext == CtxRef

----------------------------------------------------------------------------
(* generateCode and the four generators.                                   *)

\* the value of a key that a params object does not have
Undefined == <<"undefined">>

\* params.name, params.address
ParamGet(p, k) == IF k \in DOMAIN p THEN p[k] ELSE Undefined

\* v ?? d in place of v || d: only undefined gives way to the default
OrElseNullish(v, d) == IF v = Undefined THEN d ELSE v

\* v || d, on a string or undefined: the empty string is falsy
OrElse(v, d) == IF v = Undefined \/ v = <<>> THEN d ELSE v

\* `module ${address}::${moduleName} {`
ModuleHeader(address, moduleName) ==
    <<"m","o","d","u","l","e"," ">> \o address \o <<":",":">> \o moduleName \o <<" ","{">>

ModuleBody == 
    <<"\n">>
 \o <<" "," "," "," ","u","s","e"," ","s","t","d",":",":","s","i","g","n","e","r",";","\n">>
 \o <<"\n">>
 \o <<" "," "," "," ","c","o","n","s","t"," ","E","_","N","O","T","_","A","U","T","H","O","R","I","Z","E","D",":"," ","u","6","4"," ","="," ","1",";","\n">>
 \o <<"\n">>
 \o <<" "," "," "," ","s","t","r","u","c","t"," ","D","a","t","a"," ","h","a","s"," ","k","e","y"," ","{","\n">>
 \o <<" "," "," "," "," "," "," "," ","v","a","l","u","e",":"," ","u","6","4","\n">>
 \o <<" "," "," "," ","}","\n">>
 \o <<"\n">>
 \o <<" "," "," "," ","p","u","b","l","i","c"," ","f","u","n"," ","i","n","i","t","i","a","l","i","z","e","(","a","c","c","o","u","n","t",":"," ","&","s","i","g","n","e","r",")"," ","{","\n">>
 \o <<" "," "," "," "," "," "," "," ","l","e","t"," ","a","c","c","o","u","n","t","_","a","d","d","r"," ","="," ","s","i","g","n","e","r",":",":","a","d","d","r","e","s","s","_","o","f","(","a","c","c","o","u","n","t",")",";","\n">>
 \o <<" "," "," "," "," "," "," "," ","m","o","v","e","_","t","o","(","a","c","c","o","u","n","t",","," ","D","a","t","a"," ","{"," ","v","a","l","u","e",":"," ","0"," ","}",")",";","\n">>
 \o <<" "," "," "," ","}","\n">>
 \o <<"\n">>
 \o <<" "," "," "," ","p","u","b","l","i","c"," ","f","u","n"," ","u","p","d","a","t","e","_","v","a","l","u","e","(","a","c","c","o","u","n","t",":"," ","&","s","i","g","n","e","r",","," ","n","e","w","_","v","a","l","u","e",":"," ","u","6","4",")"," ","a","c","q","u","i","r","e","s"," ","D","a","t","a"," ","{","\n">>
 \o <<" "," "," "," "," "," "," "," ","l","e","t"," ","a","c","c","o","u","n","t","_","a","d","d","r"," ","="," ","s","i","g","n","e","r",":",":","a","d","d","r","e","s","s","_","o","f","(","a","c","c","o","u","n","t",")",";","\n">>
 \o <<" "," "," "," "," "," "," "," ","l","e","t"," ","d","a","t","a"," ","="," ","b","o","r","r","o","w","_","g","l","o","b","a","l","_","m","u","t","<","D","a","t","a",">","(","a","c","c","o","u","n","t","_","a","d","d","r",")",";","\n">>
 \o <<" "," "," "," "," "," "," "," ","d","a","t","a",".","v","a","l","u","e"," ","="," ","n","e","w","_","v","a","l","u","e",";","\n">>
 \o <<" "," "," "," ","}","\n">>
 \o <<"\n">>
 \o <<" "," "," "," ","p","u","b","l","i","c"," ","f","u","n"," ","g","e","t","_","v","a","l","u","e","(","a","c","c","o","u","n","t","_","a","d","d","r",":"," ","a","d","d","r","e","s","s",")",":"," ","u","6","4"," ","a","c","q","u","i","r","e","s"," ","D","a","t","a"," ","{","\n">>
 \o <<" "," "," "," "," "," "," "," ","b","o","r","r","o","w","_","g","l","o","b","a","l","<","D","a","t","a",">","(","a","c","c","o","u","n","t","_","a","d","d","r",")",".","v","a","l","u","e","\n">>
 \o <<" "," "," "," ","}","\n">>
 \o <<"}">>

TokenBody == 
    <<"\n">>
 \o <<" "," "," "," ","u","s","e"," ","s","t","d",":",":","s","i","g","n","e","r",";","\n">>
 \o <<" "," "," "," ","u","s","e"," ","s","t","d",":",":","s","t","r","i","n","g",":",":","S","t","r","i","n","g",";","\n">>
 \o <<"\n">>
 \o <<" "," "," "," ","c","o","n","s","t"," ","E","_","N","O","T","_","I","N","I","T","I","A","L","I","Z","E","D",":"," ","u","6","4"," ","="," ","1",";","\n">>
 \o <<" "," "," "," ","c","o","n","s","t"," ","E","_","A","L","R","E","A","D","Y","_","I","N","I","T","I","A","L","I","Z","E","D",":"," ","u","6","4"," ","="," ","2",";","\n">>
 \o <<" "," "," "," ","c","o","n","s","t"," ","E","_","I","N","S","U","F","F","I","C","I","E","N","T","_","B","A","L","A","N","C","E",":"," ","u","6","4"," ","="," ","3",";","\n">>
 \o <<"\n">>
 \o <<" "," "," "," ","s","t","r","u","c","t"," ","T","o","k","e","n","I","n","f","o"," ","h","a","s"," ","k","e","y"," ","{","\n">>
 \o <<" "," "," "," "," "," "," "," ","n","a","m","e",":"," ","S","t","r","i","n","g",",","\n">>
 \o <<" "," "," "," "," "," "," "," ","s","y","m","b","o","l",":"," ","S","t","r","i","n","g",",","\n">>
 \o <<" "," "," "," "," "," "," "," ","d","e","c","i","m","a","l","s",":"," ","u","8",",","\n">>
 \o <<" "," "," "," "," "," "," "," ","t","o","t","a","l","_","s","u","p","p","l","y",":"," ","u","6","4","\n">>
 \o <<" "," "," "," ","}","\n">>
 \o <<"\n">>
 \o <<" "," "," "," ","s","t","r","u","c","t"," ","B","a","l","a","n","c","e"," ","h","a","s"," ","k","e","y"," ","{","\n">>
 \o <<" "," "," "," "," "," "," "," ","v","a","l","u","e",":"," ","u","6","4","\n">>
 \o <<" "," "," "," ","}","\n">>
 \o <<"\n">>
 \o <<" "," "," "," ","p","u","b","l","i","c"," ","f","u","n"," ","i","n","i","t","i","a","l","i","z","e","(","\n">>
 \o <<" "," "," "," "," "," "," "," ","a","c","c","o","u","n","t",":"," ","&","s","i","g","n","e","r",",","\n">>
 \o <<" "," "," "," "," "," "," "," ","n","a","m","e",":"," ","S","t","r","i","n","g",",","\n">>
 \o <<" "," "," "," "," "," "," "," ","s","y","m","b","o","l",":"," ","S","t","r","i","n","g",",","\n">>
 \o <<" "," "," "," "," "," "," "," ","d","e","c","i","m","a","l","s",":"," ","u","8",",","\n">>
 \o <<" "," "," "," "," "," "," "," ","i","n","i","t","i","a","l","_","s","u","p","p","l","y",":"," ","u","6","4","\n">>
 \o <<" "," "," "," ",")"," ","{","\n">>
 \o <<" "," "," "," "," "," "," "," ","l","e","t"," ","a","c","c","o","u","n","t","_","a","d","d","r"," ","="," ","s","i","g","n","e","r",":",":","a","d","d","r","e","s","s","_","o","f","(","a","c","c","o","u","n","t",")",";","\n">>
 \o <<" "," "," "," "," "," "," "," ","a","s","s","e","r","t","!","(","!","e","x","i","s","t","s","<","T","o","k","e","n","I","n","f","o",">","(","a","c","c","o","u","n","t","_","a","d","d","r",")",","," ","E","_","A","L","R","E","A","D","Y","_","I","N","I","T","I","A","L","I","Z","E","D",")",";","\n">>
 \o <<"\n">>
 \o <<" "," "," "," "," "," "," "," ","m","o","v","e","_","t","o","(","a","c","c","o","u","n","t",","," ","T","o","k","e","n","I","n","f","o"," ","{","\n">>
 \o <<" "," "," "," "," "," "," "," "," "," "," "," ","n","a","m","e",",","\n">>
 \o <<" "," "," "," "," "," "," "," "," "," "," "," ","s","y","m","b","o","l",",","\n">>
 \o <<" "," "," "," "," "," "," "," "," "," "," "," ","d","e","c","i","m","a","l","s",",","\n">>
 \o <<" "," "," "," "," "," "," "," "," "," "," "," ","t","o","t","a","l","_","s","u","p","p","l","y",":"," ","i","n","i","t","i","a","l","_","s","u","p","p","l","y","\n">>
 \o <<" "," "," "," "," "," "," "," ","}",")",";","\n">>
 \o <<"\n">>
 \o <<" "," "," "," "," "," "," "," ","m","o","v","e","_","t","o","(","a","c","c","o","u","n","t",","," ","B","a","l","a","n","c","e"," ","{","\n">>
 \o <<" "," "," "," "," "," "," "," "," "," "," "," ","v","a","l","u","e",":"," ","i","n","i","t","i","a","l","_","s","u","p","p","l","y","\n">>
 \o <<" "," "," "," "," "," "," "," ","}",")",";","\n">>
 \o <<" "," "," "," ","}","\n">>
 \o <<"\n">>
 \o <<" "," "," "," ","p","u","b","l","i","c"," ","e","n","t","r","y"," ","f","u","n"," ","t","r","a","n","s","f","e","r","(","\n">>
 \o <<" "," "," "," "," "," "," "," ","f","r","o","m",":"," ","&","s","i","g","n","e","r",",","\n">>
 \o <<" "," "," "," "," "," "," "," ","t","o",":"," ","a","d","d","r","e","s","s",",","\n">>
 \o <<" "," "," "," "," "," "," "," ","a","m","o","u","n","t",":"," ","u","6","4","\n">>
 \o <<" "," "," "," ",")"," ","a","c","q","u","i","r","e","s"," ","B","a","l","a","n","c","e"," ","{","\n">>
 \o <<" "," "," "," "," "," "," "," ","l","e","t"," ","f","r","o","m","_","a","d","d","r"," ","="," ","s","i","g","n","e","r",":",":","a","d","d","r","e","s","s","_","o","f","(","f","r","o","m",")",";","\n">>
 \o <<" "," "," "," "," "," "," "," ","l","e","t"," ","f","r","o","m","_","b","a","l","a","n","c","e"," ","="," ","b","o","r","r","o","w","_","g","l","o","b","a","l","_","m","u","t","<","B","a","l","a","n","c","e",">","(","f","r","o","m","_","a","d","d","r",")",";","\n">>
 \o <<" "," "," "," "," "," "," "," ","\n">>
 \o <<" "," "," "," "," "," "," "," ","a","s","s","e","r","t","!","(","f","r","o","m","_","b","a","l","a","n","c","e",".","v","a","l","u","e"," ",">","="," ","a","m","o","u","n","t",","," ","E","_","I","N","S","U","F","F","I","C","I","E","N","T","_","B","A","L","A","N","C","E",")",";","\n">>
 \o <<" "," "," "," "," "," "," "," ","f","r","o","m","_","b","a","l","a","n","c","e",".","v","a","l","u","e"," ","="," ","f","r","o","m","_","b","a","l","a","n","c","e",".","v","a","l","u","e"," ","-"," ","a","m","o","u","n","t",";","\n">>
 \o <<"\n">>
 \o <<" "," "," "," "," "," "," "," ","i","f"," ","(","!","e","x","i","s","t","s","<","B","a","l","a","n","c","e",">","(","t","o",")",")"," ","{","\n">>
 \o <<" "," "," "," "," "," "," "," "," "," "," "," ","m","o","v","e","_","t","o","(","f","r","o","m",","," ","B","a","l","a","n","c","e"," ","{"," ","v","a","l","u","e",":"," ","0"," ","}",")",";","\n">>
 \o <<" "," "," "," "," "," "," "," ","}",";","\n">>
 \o <<"\n">>
 \o <<" "," "," "," "," "," "," "," ","l","e","t"," ","t","o","_","b","a","l","a","n","c","e"," ","="," ","b","o","r","r","o","w","_","g","l","o","b","a","l","_","m","u","t","<","B","a","l","a","n","c","e",">","(","t","o",")",";","\n">>
 \o <<" "," "," "," "," "," "," "," ","t","o","_","b","a","l","a","n","c","e",".","v","a","l","u","e"," ","="," ","t","o","_","b","a","l","a","n","c","e",".","v","a","l","u","e"," ","+"," ","a","m","o","u","n","t",";","\n">>
 \o <<" "," "," "," ","}","\n">>
 \o <<"\n">>
 \o <<" "," "," "," ","p","u","b","l","i","c"," ","f","u","n"," ","b","a","l","a","n","c","e","_","o","f","(","a","c","c","o","u","n","t",":"," ","a","d","d","r","e","s","s",")",":"," ","u","6","4"," ","a","c","q","u","i","r","e","s"," ","B","a","l","a","n","c","e"," ","{","\n">>
 \o <<" "," "," "," "," "," "," "," ","a","s","s","e","r","t","!","(","e","x","i","s","t","s","<","B","a","l","a","n","c","e",">","(","a","c","c","o","u","n","t",")",","," ","E","_","N","O","T","_","I","N","I","T","I","A","L","I","Z","E","D",")",";","\n">>
 \o <<" "," "," "," "," "," "," "," ","b","o","r","r","o","w","_","g","l","o","b","a","l","<","B","a","l","a","n","c","e",">","(","a","c","c","o","u","n","t",")",".","v","a","l","u","e","\n">>
 \o <<" "," "," "," ","}","\n">>
 \o <<"}">>

NFTBody == 
    <<"\n">>
 \o <<" "," "," "," ","u","s","e"," ","s","t","d",":",":","s","i","g","n","e","r",";","\n">>
 \o <<" "," "," "," ","u","s","e"," ","s","t","d",":",":","s","t","r","i","n","g",":",":","S","t","r","i","n","g",";","\n">>
 \o <<" "," "," "," ","u","s","e"," ","s","t","d",":",":","v","e","c","t","o","r",";","\n">>
 \o <<"\n">>
 \o <<" "," "," "," ","c","o","n","s","t"," ","E","_","N","O","T","_","O","W","N","E","R",":"," ","u","6","4"," ","="," ","1",";","\n">>
 \o <<" "," "," "," ","c","o","n","s","t"," ","E","_","T","O","K","E","N","_","N","O","T","_","F","O","U","N","D",":"," ","u","6","4"," ","="," ","2",";","\n">>
 \o <<"\n">>
 \o <<" "," "," "," ","s","t","r","u","c","t"," ","N","F","T","C","o","l","l","e","c","t","i","o","n"," ","h","a","s"," ","k","e","y"," ","{","\n">>
 \o <<" "," "," "," "," "," "," "," ","t","o","k","e","n","s",":"," ","v","e","c","t","o","r","<","N","F","T",">",",","\n">>
 \o <<" "," "," "," "," "," "," "," ","n","e","x","t","_","i","d",":"," ","u","6","4","\n">>
 \o <<" "," "," "," ","}","\n">>
 \o <<"\n">>
 \o <<" "," "," "," ","s","t","r","u","c","t"," ","N","F","T"," ","h","a","s"," ","s","t","o","r","e",","," ","d","r","o","p"," ","{","\n">>
 \o <<" "," "," "," "," "," "," "," ","i","d",":"," ","u","6","4",",","\n">>
 \o <<" "," "," "," "," "," "," "," ","n","a","m","e",":"," ","S","t","r","i","n","g",",","\n">>
 \o <<" "," "," "," "," "," "," "," ","d","e","s","c","r","i","p","t","i","o","n",":"," ","S","t","r","i","n","g",",","\n">>
 \o <<" "," "," "," "," "," "," "," ","u","r","i",":"," ","S","t","r","i","n","g",",","\n">>
 \o <<" "," "," "," "," "," "," "," ","o","w","n","e","r",":"," ","a","d","d","r","e","s","s","\n">>
 \o <<" "," "," "," ","}","\n">>
 \o <<"\n">>
 \o <<" "," "," "," ","p","u","b","l","i","c"," ","f","u","n"," ","i","n","i","t","i","a","l","i","z","e","_","c","o","l","l","e","c","t","i","o","n","(","a","c","c","o","u","n","t",":"," ","&","s","i","g","n","e","r",")"," ","{","\n">>
 \o <<" "," "," "," "," "," "," "," ","l","e","t"," ","a","c","c","o","u","n","t","_","a","d","d","r"," ","="," ","s","i","g","n","e","r",":",":","a","d","d","r","e","s","s","_","o","f","(","a","c","c","o","u","n","t",")",";","\n">>
 \o <<" "," "," "," "," "," "," "," ","\n">>
 \o <<" "," "," "," "," "," "," "," ","m","o","v","e","_","t","o","(","a","c","c","o","u","n","t",","," ","N","F","T","C","o","l","l","e","c","t","i","o","n"," ","{","\n">>
 \o <<" "," "," "," "," "," "," "," "," "," "," "," ","t","o","k","e","n","s",":"," ","v","e","c","t","o","r",":",":","e","m","p","t","y","<","N","F","T",">","(",")",",","\n">>
 \o <<" "," "," "," "," "," "," "," "," "," "," "," ","n","e","x","t","_","i","d",":"," ","0","\n">>
 \o <<" "," "," "," "," "," "," "," ","}",")",";","\n">>
 \o <<" "," "," "," ","}","\n">>
 \o <<"\n">>
 \o <<" "," "," "," ","p","u","b","l","i","c"," ","e","n","t","r","y"," ","f","u","n"," ","m","i","n","t","_","n","f","t","(","\n">>
 \o <<" "," "," "," "," "," "," "," ","a","c","c","o","u","n","t",":"," ","&","s","i","g","n","e","r",",","\n">>
 \o <<" "," "," "," "," "," "," "," ","n","a","m","e",":"," ","S","t","r","i","n","g",",","\n">>
 \o <<" "," "," "," "," "," "," "," ","d","e","s","c","r","i","p","t","i","o","n",":"," ","S","t","r","i","n","g",",","\n">>
 \o <<" "," "," "," "," "," "," "," ","u","r","i",":"," ","S","t","r","i","n","g","\n">>
 \o <<" "," "," "," ",")"," ","a","c","q","u","i","r","e","s"," ","N","F","T","C","o","l","l","e","c","t","i","o","n"," ","{","\n">>
 \o <<" "," "," "," "," "," "," "," ","l","e","t"," ","a","c","c","o","u","n","t","_","a","d","d","r"," ","="," ","s","i","g","n","e","r",":",":","a","d","d","r","e","s","s","_","o","f","(","a","c","c","o","u","n","t",")",";","\n">>
 \o <<" "," "," "," "," "," "," "," ","l","e","t"," ","c","o","l","l","e","c","t","i","o","n"," ","="," ","b","o","r","r","o","w","_","g","l","o","b","a","l","_","m","u","t","<","N","F","T","C","o","l","l","e","c","t","i","o","n",">","(","a","c","c","o","u","n","t","_","a","d","d","r",")",";","\n">>
 \o <<" "," "," "," "," "," "," "," ","\n">>
 \o <<" "," "," "," "," "," "," "," ","l","e","t"," ","n","e","w","_","n","f","t"," ","="," ","N","F","T"," ","{","\n">>
 \o <<" "," "," "," "," "," "," "," "," "," "," "," ","i","d",":"," ","c","o","l","l","e","c","t","i","o","n",".","n","e","x","t","_","i","d",",","\n">>
 \o <<" "," "," "," "," "," "," "," "," "," "," "," ","n","a","m","e",",","\n">>
 \o <<" "," "," "," "," "," "," "," "," "," "," "," ","d","e","s","c","r","i","p","t","i","o","n",",","\n">>
 \o <<" "," "," "," "," "," "," "," "," "," "," "," ","u","r","i",",","\n">>
 \o <<" "," "," "," "," "," "," "," "," "," "," "," ","o","w","n","e","r",":"," ","a","c","c","o","u","n","t","_","a","d","d","r","\n">>
 \o <<" "," "," "," "," "," "," "," ","}",";","\n">>
 \o <<"\n">>
 \o <<" "," "," "," "," "," "," "," ","v","e","c","t","o","r",":",":","p","u","s","h","_","b","a","c","k","(","&","m","u","t"," ","c","o","l","l","e","c","t","i","o","n",".","t","o","k","e","n","s",","," ","n","e","w","_","n","f","t",")",";","\n">>
 \o <<" "," "," "," "," "," "," "," ","c","o","l","l","e","c","t","i","o","n",".","n","e","x","t","_","i","d"," ","="," ","c","o","l","l","e","c","t","i","o","n",".","n","e","x","t","_","i","d"," ","+"," ","1",";","\n">>
 \o <<" "," "," "," ","}","\n">>
 \o <<"\n">>
 \o <<" "," "," "," ","p","u","b","l","i","c"," ","f","u","n"," ","g","e","t","_","n","f","t","_","c","o","u","n","t","(","a","c","c","o","u","n","t",":"," ","a","d","d","r","e","s","s",")",":"," ","u","6","4"," ","a","c","q","u","i","r","e","s"," ","N","F","T","C","o","l","l","e","c","t","i","o","n"," ","{","\n">>
 \o <<" "," "," "," "," "," "," "," ","l","e","t"," ","c","o","l","l","e","c","t","i","o","n"," ","="," ","b","o","r","r","o","w","_","g","l","o","b","a","l","<","N","F","T","C","o","l","l","e","c","t","i","o","n",">","(","a","c","c","o","u","n","t",")",";","\n">>
 \o <<" "," "," "," "," "," "," "," ","v","e","c","t","o","r",":",":","l","e","n","g","t","h","(","&","c","o","l","l","e","c","t","i","o","n",".","t","o","k","e","n","s",")","\n">>
 \o <<" "," "," "," ","}","\n">>
 \o <<"}">>

MarketplaceBodyA == 
    <<"\n">>
 \o <<" "," "," "," ","u","s","e"," ","s","t","d",":",":","s","i","g","n","e","r",";","\n">>
 \o <<" "," "," "," ","u","s","e"," ","s","t","d",":",":","v","e","c","t","o","r",";","\n">>
 \o <<"\n">>
 \o <<" "," "," "," ","c","o","n","s","t"," ","E","_","L","I","S","T","I","N","G","_","N","O","T","_","F","O","U","N","D",":"," ","u","6","4"," ","="," ","1",";","\n">>
 \o <<" "," "," "," ","c","o","n","s","t"," ","E","_","I","N","S","U","F","F","I","C","I","E","N","T","_","P","A","Y","M","E","N","T",":"," ","u","6","4"," ","="," ","2",";","\n">>
 \o <<" "," "," "," ","c","o","n","s","t"," ","E","_","N","O","T","_","S","E","L","L","E","R",":"," ","u","6","4"," ","="," ","3",";","\n">>
 \o <<"\n">>
 \o <<" "," "," "," ","s","t","r","u","c","t"," ","L","i","s","t","i","n","g"," ","h","a","s"," ","s","t","o","r","e",","," ","d","r","o","p"," ","{","\n">>
 \o <<" "," "," "," "," "," "," "," ","i","d",":"," ","u","6","4",",","\n">>
 \o <<" "," "," "," "," "," "," "," ","s","e","l","l","e","r",":"," ","a","d","d","r","e","s","s",",","\n">>
 \o <<" "," "," "," "," "," "," "," ","p","r","i","c","e",":"," ","u","6","4",",","\n">>
 \o <<" "," "," "," "," "," "," "," ","i","t","e","m","_","i","d",":"," ","u","6","4",",","\n">>
 \o <<" "," "," "," "," "," "," "," ","a","c","t","i","v","e",":"," ","b","o","o","l","\n">>
 \o <<" "," "," "," ","}","\n">>
 \o <<"\n">>
 \o <<" "," "," "," ","s","t","r","u","c","t"," ","M","a","r","k","e","t","p","l","a","c","e","D","a","t","a"," ","h","a","s"," ","k","e","y"," ","{","\n">>
 \o <<" "," "," "," "," "," "," "," ","l","i","s","t","i","n","g","s",":"," ","v","e","c","t","o","r","<","L","i","s","t","i","n","g",">",",","\n">>
 \o <<" "," "," "," "," "," "," "," ","n","e","x","t","_","l","i","s","t","i","n","g","_","i","d",":"," ","u","6","4","\n">>
 \o <<" "," "," "," ","}","\n">>
 \o <<"\n">>
 \o <<" "," "," "," ","p","u","b","l","i","c"," ","f","u","n"," ","i","n","i","t","i","a","l","i","z","e","(","a","c","c","o","u","n","t",":"," ","&","s","i","g","n","e","r",")"," ","{","\n">>
 \o <<" "," "," "," "," "," "," "," ","m","o","v","e","_","t","o","(","a","c","c","o","u","n","t",","," ","M","a","r","k","e","t","p","l","a","c","e","D","a","t","a"," ","{","\n">>
 \o <<" "," "," "," "," "," "," "," "," "," "," "," ","l","i","s","t","i","n","g","s",":"," ","v","e","c","t","o","r",":",":","e","m","p","t","y","<","L","i","s","t","i","n","g",">","(",")",",","\n">>
 \o <<" "," "," "," "," "," "," "," "," "," "," "," ","n","e","x","t","_","l","i","s","t","i","n","g","_","i","d",":"," ","0","\n">>
 \o <<" "," "," "," "," "," "," "," ","}",")",";","\n">>
 \o <<" "," "," "," ","}","\n">>
 \o <<"\n">>
 \o <<" "," "," "," ","p","u","b","l","i","c"," ","e","n","t","r","y"," ","f","u","n"," ","c","r","e","a","t","e","_","l","i","s","t","i","n","g","(","\n">>
 \o <<" "," "," "," "," "," "," "," ","s","e","l","l","e","r",":"," ","&","s","i","g","n","e","r",",","\n">>
 \o <<" "," "," "," "," "," "," "," ","i","t","e","m","_","i","d",":"," ","u","6","4",",","\n">>
 \o <<" "," "," "," "," "," "," "," ","p","r","i","c","e",":"," ","u","6","4","\n">>
 \o <<" "," "," "," ",")"," ","a","c","q","u","i","r","e","s"," ","M","a","r","k","e","t","p","l","a","c","e","D","a","t","a"," ","{","\n">>
 \o <<" "," "," "," "," "," "," "," ","l","e","t"," ","s","e","l","l","e","r","_","a","d","d","r"," ","="," ","s","i","g","n","e","r",":",":","a","d","d","r","e","s","s","_","o","f","(","s","e","l","l","e","r",")",";","\n">>
 \o <<" "," "," "," "," "," "," "," ","l","e","t"," ","m","a","r","k","e","t","p","l","a","c","e"," ","="," ","b","o","r","r","o","w","_","g","l","o","b","a","l","_","m","u","t","<","M","a","r","k","e","t","p","l","a","c","e","D","a","t","a",">","(","@">>

MarketplaceBodyB == 
    <<")",";","\n">>
 \o <<" "," "," "," "," "," "," "," ","\n">>
 \o <<" "," "," "," "," "," "," "," ","l","e","t"," ","l","i","s","t","i","n","g"," ","="," ","L","i","s","t","i","n","g"," ","{","\n">>
 \o <<" "," "," "," "," "," "," "," "," "," "," "," ","i","d",":"," ","m","a","r","k","e","t","p","l","a","c","e",".","n","e","x","t","_","l","i","s","t","i","n","g","_","i","d",",","\n">>
 \o <<" "," "," "," "," "," "," "," "," "," "," "," ","s","e","l","l","e","r",":"," ","s","e","l","l","e","r","_","a","d","d","r",",","\n">>
 \o <<" "," "," "," "," "," "," "," "," "," "," "," ","p","r","i","c","e",",","\n">>
 \o <<" "," "," "," "," "," "," "," "," "," "," "," ","i","t","e","m","_","i","d",",","\n">>
 \o <<" "," "," "," "," "," "," "," "," "," "," "," ","a","c","t","i","v","e",":"," ","t","r","u","e","\n">>
 \o <<" "," "," "," "," "," "," "," ","}",";","\n">>
 \o <<"\n">>
 \o <<" "," "," "," "," "," "," "," ","v","e","c","t","o","r",":",":","p","u","s","h","_","b","a","c","k","(","&","m","u","t"," ","m","a","r","k","e","t","p","l","a","c","e",".","l","i","s","t","i","n","g","s",","," ","l","i","s","t","i","n","g",")",";","\n">>
 \o <<" "," "," "," "," "," "," "," ","m","a","r","k","e","t","p","l","a","c","e",".","n","e","x","t","_","l","i","s","t","i","n","g","_","i","d"," ","="," ","m","a","r","k","e","t","p","l","a","c","e",".","n","e","x","t","_","l","i","s","t","i","n","g","_","i","d"," ","+"," ","1",";","\n">>
 \o <<" "," "," "," ","}","\n">>
 \o <<"}">>

\* movePatterns[0].template, the "create_module" pattern of the constructor
CreateModuleTemplate == 
    <<"m","o","d","u","l","e"," ","{","{","a","d","d","r","e","s","s","}","}",":",":","{","{","m","o","d","u","l","e","_","n","a","m","e","}","}"," ","{","\n">>
 \o <<" "," "," "," ","u","s","e"," ","s","t","d",":",":","s","i","g","n","e","r",";","\n">>
 \o <<" "," "," "," ","\n">>
 \o <<" "," "," "," ","/","/"," ","M","o","d","u","l","e"," ","c","o","d","e"," ","h","e","r","e","\n">>
 \o <<"}">>

\* a generateModule that hands out the create_module pattern, placeholders unfilled
generateModuleFromPattern(p) == CreateModuleTemplate

generateModule(p) ==
    LET moduleName == OrElse(ParamGet(p, "name"), <<"M","y","M","o","d","u","l","e">>)
        address    == OrElse(ParamGet(p, "address"), <<"0","x","1">>)
    IN  ModuleHeader(address, moduleName) \o ModuleBody

generateTokenContract(p) ==
    LET moduleName == OrElse(ParamGet(p, "name"), <<"M","y","T","o","k","e","n">>)
        address    == OrElse(ParamGet(p, "address"), <<"0","x","1">>)
    IN  ModuleHeader(address, moduleName) \o TokenBody

generateNFTContract(p) ==
    LET moduleName == OrElse(ParamGet(p, "name"), <<"M","y","N","F","T">>)
        address    == OrElse(ParamGet(p, "address"), <<"0","x","1">>)
    IN  ModuleHeader(address, moduleName) \o NFTBody

generateMarketplace(p) ==
    LET moduleName == OrElse(ParamGet(p, "name"), <<"M","a","r","k","e","t","p","l","a","c","e">>)
        address    == OrElse(ParamGet(p, "address"), <<"0","x","1">>)
    IN  ModuleHeader(address, moduleName) \o MarketplaceBodyA \o address \o MarketplaceBodyB

Fallback ==
    <<"/","/"," ","U","n","a","b","l","e"," ","t","o"," ","g","e","n","e","r","a","t","e"," ","c","o","d","e","."," ","T","r","y",":"," ","'","c","r","e","a","t","e"," ","a"," ","t","o","k","e","n","'",","," ","'","c","r","e","a","t","e"," ","a","n"," ","n","f","t","'",","," ","'","c","r","e","a","t","e"," ","a"," ","m","a","r","k","e","t","p","l","a","c","e","'">>

\* the chain with the nft test moved before the token test
generateCodeNftFirst(intent, p) ==
    LET intentLower == toLowerCase(intent)
    IN  IF includes(intentLower, <<"n","f","t">>)
        THEN generateNFTContract(p)
        ELSE IF includes(intentLower, <<"t","o","k","e","n">>) \/ includes(intentLower, <<"c","o","i","n">>)
        THEN generateTokenContract(p)
        ELSE IF includes(intentLower, <<"m","a","r","k","e","t","p","l","a","c","e">>)
        THEN generateMarketplace(p)
        ELSE IF includes(intentLower, <<"m","o","d","u","l","e">>)
        THEN generateModule(p)
        ELSE Fallback

generateCode(intent, p) ==
    LET intentLower == toLowerCase(intent)
    IN  IF includes(intentLower, <<"t","o","k","e","n">>) \/ includes(intentLower, <<"c","o","i","n">>)
        THEN generateTokenContract(p)
        ELSE IF includes(intentLower, <<"n","f","t">>)
        THEN generateNFTContract(p)
        ELSE IF includes(intentLower, <<"m","a","r","k","e","t","p","l","a","c","e">>)
        THEN generateMarketplace(p)
        ELSE IF includes(intentLower, <<"m","o","d","u","l","e">>)
        THEN generateModule(p)
        ELSE Fallback

----------------------------------------------------------------------------
(* explainConcept.                                                         *)

AbilitiesText == 
    <<"M","o","v","e"," ","A","b","i","l","i","t","i","e","s",":","\n">>
 \o <<"-"," ","k","e","y",":"," ","C","a","n"," ","b","e"," ","s","t","o","r","e","d"," ","i","n"," ","g","l","o","b","a","l"," ","s","t","o","r","a","g","e","\n">>
 \o <<"-"," ","s","t","o","r","e",":"," ","C","a","n"," ","b","e"," ","s","t","o","r","e","d"," ","i","n","s","i","d","e"," ","o","t","h","e","r"," ","s","t","r","u","c","t","s","\n">>
 \o <<"-"," ","c","o","p","y",":"," ","C","a","n"," ","b","e"," ","c","o","p","i","e","d","\n">>
 \o <<"-"," ","d","r","o","p",":"," ","C","a","n"," ","b","e"," ","d","r","o","p","p","e","d","/","d","e","s","t","r","o","y","e","d","\n">>
 \o <<"\n">>
 \o <<"E","x","a","m","p","l","e",":"," ","s","t","r","u","c","t"," ","M","y","R","e","s","o","u","r","c","e"," ","h","a","s"," ","k","e","y",","," ","s","t","o","r","e"," ","{"," ",".",".","."," ","}">>

ResourcesText == 
    <<"M","o","v","e"," ","R","e","s","o","u","r","c","e","s",":","\n">>
 \o <<"-"," ","S","t","r","u","c","t","s"," ","w","i","t","h"," ","t","h","e"," ","'","k","e","y","'"," ","a","b","i","l","i","t","y","\n">>
 \o <<"-"," ","C","a","n"," ","b","e"," ","s","t","o","r","e","d"," ","i","n"," ","g","l","o","b","a","l"," ","s","t","o","r","a","g","e","\n">>
 \o <<"-"," ","C","a","n","n","o","t"," ","b","e"," ","c","o","p","i","e","d"," ","o","r"," ","d","r","o","p","p","e","d"," ","(","l","i","n","e","a","r"," ","t","y","p","e","s",")","\n">>
 \o <<"-"," ","A","c","c","e","s","s","e","d"," ","w","i","t","h"," ","m","o","v","e","_","t","o","(",")",","," ","b","o","r","r","o","w","_","g","l","o","b","a","l","(",")",","," ","e","x","i","s","t","s","(",")">>

AcquiresText == 
    <<"A","c","q","u","i","r","e","s"," ","K","e","y","w","o","r","d",":","\n">>
 \o <<"F","u","n","c","t","i","o","n","s"," ","t","h","a","t"," ","a","c","c","e","s","s"," ","g","l","o","b","a","l"," ","s","t","o","r","a","g","e"," ","m","u","s","t"," ","d","e","c","l","a","r","e"," ","w","h","i","c","h"," ","r","e","s","o","u","r","c","e","s"," ","t","h","e","y"," ","a","c","q","u","i","r","e",".","\n">>
 \o <<"\n">>
 \o <<"E","x","a","m","p","l","e",":","\n">>
 \o <<"p","u","b","l","i","c"," ","f","u","n"," ","t","r","a","n","s","f","e","r","(",")"," ","a","c","q","u","i","r","e","s"," ","B","a","l","a","n","c","e"," ","{","\n">>
 \o <<" "," "," "," ","l","e","t"," ","b","a","l","a","n","c","e"," ","="," ","b","o","r","r","o","w","_","g","l","o","b","a","l","_","m","u","t","<","B","a","l","a","n","c","e",">","(","a","d","d","r",")",";","\n">>
 \o <<"}">>

SignerText == 
    <<"S","i","g","n","e","r"," ","T","y","p","e",":","\n">>
 \o <<"-"," ","R","e","p","r","e","s","e","n","t","s"," ","t","r","a","n","s","a","c","t","i","o","n"," ","s","e","n","d","e","r"," ","a","u","t","h","o","r","i","t","y","\n">>
 \o <<"-"," ","C","a","n","n","o","t"," ","b","e"," ","c","o","p","i","e","d"," ","o","r"," ","s","t","o","r","e","d","\n">>
 \o <<"-"," ","U","s","e","d"," ","t","o"," ","p","r","o","v","e"," ","o","w","n","e","r","s","h","i","p","/","a","u","t","h","o","r","i","z","a","t","i","o","n","\n">>
 \o <<"-"," ","C","o","m","m","o","n"," ","p","a","t","t","e","r","n",":"," ","s","i","g","n","e","r",":",":","a","d","d","r","e","s","s","_","o","f","(","&","s","i","g","n","e","r",")">>

\* Object.entries(explanations): string keys come in insertion order
explanations ==
    << [key |-> <<"a","b","i","l","i","t","i","e","s">>, explanation |-> AbilitiesText],
       [key |-> <<"r","e","s","o","u","r","c","e","s">>, explanation |-> ResourcesText],
       [key |-> <<"a","c","q","u","i","r","e","s">>,  explanation |-> AcquiresText],
       [key |-> <<"s","i","g","n","e","r">>,    explanation |-> SignerText] >>

ConceptNotFound == <<"C","o","n","c","e","p","t"," ","n","o","t"," ","f","o","u","n","d","."," ","A","v","a","i","l","a","b","l","e",":"," ","a","b","i","l","i","t","i","e","s",","," ","r","e","s","o","u","r","c","e","s",","," ","a","c","q","u","i","r","e","s",","," ","s","i","g","n","e","r">>

\* for (const [key, explanation] of entries) if (conceptLower.includes(key)) return explanation
RECURSIVE ExplainLoop(_, _, _)
ExplainLoop(entries, i, conceptLower) ==
    IF i > Len(entries) THEN ConceptNotFound
    ELSE IF includes(conceptLower, entries[i].key) THEN entries[i].explanation
    ELSE ExplainLoop(entries, i + 1, conceptLower)

\* the lookup without toLowerCase
explainConceptCaseSensitive(concept) == ExplainLoop(explanations, 1, concept)

explainConcept(concept) == ExplainLoop(explanations, 1, toLowerCase(concept))

----------------------------------------------------------------------------
(* reviewCode. The findings are kept as the source writes them, but for    *)
(* their leading pictograph, written here as (!), (i) and (ok).            *)

AcquiresWarning == "(!)  Functions using borrow_global must declare 'acquires'"
KeyWarning == "(!)  Resources moved to storage need 'key' ability"
ConstSuggestion == "(i) Consider defining error constants"
NoIssues == "(ok) No obvious issues found!"

\* the rule testing for "borrow_global_mut" in place of "borrow_global"
AcquiresRuleMutOnly(code, issues) ==
    IF includes(code, <<"b","o","r","r","o","w","_","g","l","o","b","a","l","_","m","u","t">>) /\ ~includes(code, <<"a","c","q","u","i","r","e","s">>)
    THEN Append(issues, AcquiresWarning)
    ELSE issues

\* if (code.includes("borrow_global") && !code.includes("acquires")) issues.push(...)
AcquiresRule(code, issues) ==
    IF includes(code, <<"b","o","r","r","o","w","_","g","l","o","b","a","l">>) /\ ~includes(code, <<"a","c","q","u","i","r","e","s">>)
    THEN Append(issues, AcquiresWarning)
    ELSE issues

\* the rule as an else-branch of the one before it: an earlier finding suppresses it
KeyRuleSuppressed(code, issues) ==
    IF Len(issues) = 0 /\ includes(code, <<"m","o","v","e","_","t","o">>) /\ includes(code, <<"s","t","r","u","c","t">>)
       /\ ~includes(code, <<"h","a","s"," ","k","e","y">>)
    THEN Append(issues, KeyWarning)
    ELSE issues

\* if (code.includes("move_to") && code.includes("struct")) if (!code.includes("has key")) ...
KeyRule(code, issues) ==
    IF includes(code, <<"m","o","v","e","_","t","o">>) /\ includes(code, <<"s","t","r","u","c","t">>)
    THEN IF ~includes(code, <<"h","a","s"," ","k","e","y">>) THEN Append(issues, KeyWarning) ELSE issues
    ELSE issues

\* if (!code.includes("const E_")) issues.push(...)
ConstRule(code, issues) ==
    IF ~includes(code, <<"c","o","n","s","t"," ","E","_">>) THEN Append(issues, ConstSuggestion) ELSE issues

reviewCode(code) ==
    LET issues == ConstRule(code, KeyRule(code, AcquiresRule(code, <<>>)))
    IN  IF Len(issues) = 0 THEN <<NoIssues>> ELSE issues

----------------------------------------------------------------------------
(* The generated contracts, run under Move's rules for global storage: a   *)
(* resource store is a function from the addresses that hold the resource; *)
(* move_to aborts when the address already holds one, borrow_global and    *)
(* borrow_global_mut abort when it holds none, u64 arithmetic aborts on    *)
(* overflow, and an aborted transaction changes nothing.                   *)

Addrs == {"0xA", "0xB"}

\* exists<T>(addr)
Exists(store, addr) == addr \in DOMAIN store

\* the store after move_to(account, value), where that does not abort
MoveTo(store, addr, value) ==
    [a \in DOMAIN store \cup {addr} |-> IF a = addr THEN value ELSE store[a]]

Aborted(code) == [status |-> code]

\* Token: initialize(account, name, symbol, decimals, initial_supply)
TokenInitialize(info, bal, account, name, symbol, decimals, initial_supply) ==
    IF Exists(info, account) THEN Aborted("E_ALREADY_INITIALIZED")
    ELSE IF Exists(bal, account) THEN Aborted("RESOURCE_ALREADY_EXISTS")
    ELSE [status    |-> "ok",
          tokenInfo |-> MoveTo(info, account,
                               [name |-> name, symbol |-> symbol, decimals |-> decimals,
                                total_supply |-> initial_supply]),
          balances  |-> MoveTo(bal, account, initial_supply)]

\* Token: if (!exists<Balance>(to)) { move_to(from, Balance { value: 0 }); }
\* the signer handed to move_to is from, the sender
TransferCreate(bal, from, to) ==
    IF Exists(bal, to) THEN [status |-> "ok", balances |-> bal]
    ELSE IF Exists(bal, from) THEN Aborted("RESOURCE_ALREADY_EXISTS")
    ELSE [status |-> "ok", balances |-> MoveTo(bal, from, 0)]

\* Token: transfer(from, to, amount)
TokenTransfer(bal, from, to, amount) ==
    IF ~Exists(bal, from) THEN Aborted("MISSING_DATA")
    ELSE IF ~(bal[from] >= amount) THEN Aborted("E_INSUFFICIENT_BALANCE")
    ELSE LET debited == [bal EXCEPT ![from] = @ - amount]
             created == TransferCreate(debited, from, to)
         IN  IF created.status # "ok" THEN created
             ELSE IF ~Exists(created.balances, to) THEN Aborted("MISSING_DATA")
             ELSE IF created.balances[to] + amount > MaxU64 THEN Aborted("ARITHMETIC_ERROR")
             ELSE [status   |-> "ok",
                   balances |-> [created.balances EXCEPT ![to] = @ + amount]]

\* NFT: initialize_collection(account)
NftInitialize(cols, account) ==
    IF Exists(cols, account) THEN Aborted("RESOURCE_ALREADY_EXISTS")
    ELSE [status      |-> "ok",
          collections |-> MoveTo(cols, account, [tokens |-> <<>>, next_id |-> 0])]

\* mint_nft without its last line, the counter left as it was
NftMintNoIncrement(cols, account, name, description, uri) ==
    IF ~Exists(cols, account) THEN Aborted("MISSING_DATA")
    ELSE LET collection == cols[account]
             new_nft == [id |-> collection.next_id, name |-> name,
                         description |-> description, uri |-> uri, owner |-> account]
         IN  [status      |-> "ok",
              collections |-> [cols EXCEPT ![account] =
                                  [tokens  |-> Append(collection.tokens, new_nft),
                                   next_id |-> collection.next_id]]]

\* NFT: mint_nft(account, name, description, uri)
NftMint(cols, account, name, description, uri) ==
    IF ~Exists(cols, account) THEN Aborted("MISSING_DATA")
    ELSE LET collection == cols[account]
             new_nft == [id |-> collection.next_id, name |-> name,
                         description |-> description, uri |-> uri, owner |-> account]
         IN  IF collection.next_id + 1 > MaxU64 THEN Aborted("ARITHMETIC_ERROR")
             ELSE [status      |-> "ok",
                   collections |-> [cols EXCEPT ![account] =
                                       [tokens  |-> Append(collection.tokens, new_nft),
                                        next_id |-> collection.next_id + 1]]]

----------------------------------------------------------------------------
(* The inputs the callers of the model choose from.                        *)

CodeFrags ==
    { <<"m","o","d","u","l","e"," ","a",":",":","b"," ">>, <<"m","o","d","u","l","e"," ","a",":",":">>, <<"s","t","r","u","c","t"," ","S"," ","f","u","n"," ","f","(">>, <<"p","u","b","l","i","c"," ","f","u","n"," ","g","(">> }
CodeInputs == Joins(CodeFrags, MaxCodeFrags)

IntentFrags ==
    { <<"t","o","k","e","n">>, <<"T","o">>, <<"K","E","N">>, <<"c","o","i","n">>, <<"N","F","T">>, <<"m","a","r","k","e","t","p","l","a","c","e">>, <<"M","o","d","u","l","e">>, <<"c","r","e","a","t","e"," ","a"," ">> }
IntentInputs == Joins(IntentFrags, MaxIntentFrags)

ReviewFrags ==
    { <<"b","o","r","r","o","w","_","g","l","o","b","a","l">>, <<"_","m","u","t","<","T",">">>, <<"a","c","q","u","i","r","e","s">>, <<"m","o","v","e","_","t","o">>, <<"s","t","r","u","c","t">>,
      <<" ","h","a","s"," ","k","e","y">>, <<"c","o","n","s","t"," ","E","_">> }
ReviewInputs == Joins(ReviewFrags, MaxReviewFrags)

ConceptFrags ==
    { <<"a","b","i","l","i","t","i","e","s">>, <<"r","e","s","o","u","r","c","e","s">>, <<"A","c","q","u","i","r","e","s">>, <<"s","i","g","n","e","r">>, <<"s","i","g","n">>, <<"e","r">>, <<"b","a","n","a","n","a">> }
ConceptInputs == Joins(ConceptFrags, MaxConceptFrags)

\* the intents and concepts of the calls interleaved with analyzeCode
FacadeIntents == { <<"c","r","e","a","t","e"," ","a"," ","t","o","k","e","n">>, <<"a","n"," ","N","F","T">>, <<"h","e","l","l","o">> }
FacadeConcepts == { <<"s","i","g","n","e","r">>, <<"b","a","n","a","n","a">> }

\* a params object: a key whose choice is Undefined is absent
MakeParams(name, address) ==
    [k \in (IF name = Undefined THEN {} ELSE {"name"})
           \cup (IF address = Undefined THEN {} ELSE {"address"})
       |-> IF k = "name" THEN name ELSE address]
NameChoices == { Undefined, <<>>, <<"G","a","m","e","T","o","k","e","n">> }
AddressChoices == { Undefined, <<>>, <<"0","x","C","A","F","E">> }
ParamChoices == { MakeParams(n, a) : n \in NameChoices, a \in AddressChoices }
NoParams == MakeParams(Undefined, Undefined)

\* what the caller pushes onto a list of the object it was handed
CallerEntry == <<"m","i","n","e">>
ListNames == {"modules", "structs", "functions"}

NftNames == {"n1", "n2"}

----------------------------------------------------------------------------
(* The state after construction, and the operations.                       *)

NoStore == [a \in {} |-> 0]

MoveInit ==
    /\ balances = NoStore
    /\ tokenInfo = NoStore
    /\ collections = NoStore
    /\ status = "ok"

\* new MoveAI()
Init ==
    /\ heap = [r \in {CtxRef} |-> EmptyContext]
    /\ held = NoRef
    /\ lastOp = "new"
    /\ arg = <<>>
    /\ params = NoParams
    /\ ret = Undefined
    /\ MoveInit

\* new MoveAI(), and a call about to be made with one of the given arguments
PendingInit(inputs, paramChoices) ==
    /\ heap = [r \in {CtxRef} |-> EmptyContext]
    /\ held = NoRef
    /\ lastOp = "pending"
    /\ arg \in inputs
    /\ params \in paramChoices
    /\ ret = Undefined
    /\ MoveInit

AnalyzeCode(code) ==
    /\ heap' = [heap EXCEPT ![CtxRef] = analyzeCode(heap[CtxRef], code)]
    /\ lastOp' = "analyzeCode"
    /\ ret' = Undefined
    /\ UNCHANGED <<held, arg, params, moveVars>>

GenerateCode(intent, p) ==
    /\ ret' = generateCode(intent, p)
    /\ lastOp' = "generateCode"
    /\ UNCHANGED <<heap, held, arg, params, moveVars>>

ExplainConcept(concept) ==
    /\ ret' = explainConcept(concept)
    /\ lastOp' = "explainConcept"
    /\ UNCHANGED <<heap, held, arg, params, moveVars>>

\* a reviewCode that also records the symbols of the source it is given
ReviewCodeRecording(code) ==
    /\ ret' = reviewCode(code)
    /\ heap' = [heap EXCEPT ![CtxRef] = analyzeCode(heap[CtxRef], code)]
    /\ lastOp' = "reviewCode"
    /\ UNCHANGED <<held, arg, params, moveVars>>

ReviewCode(code) ==
    /\ ret' = reviewCode(code)
    /\ lastOp' = "reviewCode"
    /\ UNCHANGED <<heap, held, arg, params, moveVars>>

\* const ctx = moveAI.getContext()
GetContext ==
    /\ held' = getContext
    /\ ret' = Undefined
    /\ lastOp' = "getContext"
    /\ UNCHANGED <<heap, arg, params, moveVars>>

\* the caller appends to a list of the object getContext handed it
CallerPush(list) ==
    /\ held # NoRef
    /\ Len(heap[held][list]) < MaxCallerLen
    /\ heap' = [heap EXCEPT ![held][list] = Append(@, CallerEntry)]
    /\ lastOp' = "callerPush"
    /\ UNCHANGED <<held, arg, params, ret, moveVars>>

\* the caller removes the last entry of a list of that object
CallerPop(list) ==
    /\ held # NoRef
    /\ Len(heap[held][list]) > 0
    /\ heap' = [heap EXCEPT ![held][list] = SubSeq(@, 1, Len(@) - 1)]
    /\ lastOp' = "callerPop"
    /\ UNCHANGED <<held, arg, params, ret, moveVars>>

\* a Token transaction ends: committed, or aborted with nothing changed
TokenCommit(op, txArgs, r) ==
    /\ status' = r.status
    /\ balances' = IF r.status = "ok" THEN r.balances ELSE balances
    /\ tokenInfo' = IF r.status = "ok" /\ op = "initialize" THEN r.tokenInfo ELSE tokenInfo
    /\ lastOp' = op
    /\ arg' = txArgs
    /\ UNCHANGED <<heap, held, params, ret, collections>>

TokenInitializeTx(account, initial_supply) ==
    TokenCommit("initialize", [account |-> account, initial_supply |-> initial_supply],
                TokenInitialize(tokenInfo, balances, account, "name", "SYM", 0, initial_supply))

TokenTransferTx(from, to, amount) ==
    TokenCommit("transfer", [from |-> from, to |-> to, amount |-> amount],
                TokenTransfer(balances, from, to, amount))

\* an NFT transaction ends: committed, or aborted with nothing changed
NftCommit(op, txArgs, r) ==
    /\ status' = r.status
    /\ collections' = IF r.status = "ok" THEN r.collections ELSE collections
    /\ lastOp' = op
    /\ arg' = txArgs
    /\ UNCHANGED <<heap, held, params, ret, balances, tokenInfo>>

NftInitializeTx(account) ==
    NftCommit("initialize_collection", [account |-> account], NftInitialize(collections, account))

NftMintTx(account, name) ==
    /\ Exists(collections, account) => Len(collections[account].tokens) < MaxMint
    /\ NftCommit("mint_nft", [account |-> account, name |-> name],
                 NftMint(collections, account, name, "description", "uri"))

----------------------------------------------------------------------------
(* The specifications.                                                     *)

\* the facade, called in any order
Next ==
    \/ \E code \in CodeInputs : AnalyzeCode(code)
    \/ GetContext
    \/ \E code \in CodeFrags : ReviewCode(code)
    \/ \E intent \in FacadeIntents : GenerateCode(intent, NoParams)
    \/ \E concept \in FacadeConcepts : ExplainConcept(concept)

Spec == Init /\ [][Next]_vars

\* the facade, and a caller that writes to the object getContext returned
AliasNext ==
    \/ \E code \in CodeFrags : AnalyzeCode(code)
    \/ GetContext
    \/ \E list \in ListNames : CallerPush(list)
    \/ \E list \in ListNames : CallerPop(list)

AliasSpec == Init /\ [][AliasNext]_vars

\* one generateCode call, over the intents and params objects
GenInit == PendingInit(IntentInputs, ParamChoices)
GenNext == lastOp = "pending" /\ GenerateCode(arg, params)
GenSpec == GenInit /\ [][GenNext]_vars

\* one reviewCode call, over the source texts
ReviewInit == PendingInit(ReviewInputs, {NoParams})
ReviewNext == lastOp = "pending" /\ ReviewCode(arg)
ReviewSpec == ReviewInit /\ [][ReviewNext]_vars

\* one explainConcept call, over the concepts
ExplainInit == PendingInit(ConceptInputs, {NoParams})
ExplainNext == lastOp = "pending" /\ ExplainConcept(arg)
ExplainSpec == ExplainInit /\ [][ExplainNext]_vars

\* the Token contract's transactions
TokenNext ==
    \/ \E account \in Addrs, supply \in 0..MaxU64 : TokenInitializeTx(account, supply)
    \/ \E from \in Addrs, to \in Addrs, amount \in 0..MaxU64 : TokenTransferTx(from, to, amount)

TokenSpec == Init /\ [][TokenNext]_vars

\* the NFT contract's transactions
NftNext ==
    \/ \E account \in Addrs : NftInitializeTx(account)
    \/ \E account \in Addrs, name \in NftNames : NftMintTx(account, name)

NftSpec == Init /\ [][NftNext]_vars

\* params objects whose values carry the words the review rules look for
HostileParams == { MakeParams(<<"m","o","v","e","_","t","o"," ","s","t","r","u","c","t">>, <<"b","o","r","r","o","w","_","g","l","o","b","a","l">>),
                   MakeParams(<<"b","o","r","r","o","w","_","g","l","o","b","a","l","_","m","u","t">>, Undefined) }

\* the caller hands what generateCode returned to reviewCode
ReviewReturned == lastOp = "generateCode" /\ ReviewCode(ret)

\* one generateCode call, and reviewCode on the text it returned
GenReviewInit == PendingInit(IntentInputs, ParamChoices \cup HostileParams)
GenReviewNext == GenNext \/ ReviewReturned
GenReviewSpec == GenReviewInit /\ [][GenReviewNext]_vars

----------------------------------------------------------------------------
(* The copy of the facade that the interactive shell (src/testfile.ts)     *)
(* declares and calls.                                                     *)

ShellModuleBody == 
    <<"\n">>
 \o <<" "," "," "," ","u","s","e"," ","s","t","d",":",":","s","i","g","n","e","r",";","\n">>
 \o <<"\n">>
 \o <<" "," "," "," ","c","o","n","s","t"," ","E","_","N","O","T","_","A","U","T","H","O","R","I","Z","E","D",":"," ","u","6","4"," ","="," ","1",";","\n">>
 \o <<"\n">>
 \o <<" "," "," "," ","s","t","r","u","c","t"," ","D","a","t","a"," ","h","a","s"," ","k","e","y"," ","{","\n">>
 \o <<" "," "," "," "," "," "," "," ","v","a","l","u","e",":"," ","u","6","4","\n">>
 \o <<" "," "," "," ","}","\n">>
 \o <<"\n">>
 \o <<" "," "," "," ","p","u","b","l","i","c"," ","f","u","n"," ","i","n","i","t","i","a","l","i","z","e","(","a","c","c","o","u","n","t",":"," ","&","s","i","g","n","e","r",")"," ","{","\n">>
 \o <<" "," "," "," "," "," "," "," ","m","o","v","e","_","t","o","(","a","c","c","o","u","n","t",","," ","D","a","t","a"," ","{"," ","v","a","l","u","e",":"," ","0"," ","}",")",";","\n">>
 \o <<" "," "," "," ","}","\n">>
 \o <<"}">>

ShellTokenBody == 
    <<"\n">>
 \o <<" "," "," "," ","u","s","e"," ","s","t","d",":",":","s","i","g","n","e","r",";","\n">>
 \o <<" "," "," "," ","u","s","e"," ","s","t","d",":",":","s","t","r","i","n","g",":",":","S","t","r","i","n","g",";","\n">>
 \o <<"\n">>
 \o <<" "," "," "," ","c","o","n","s","t"," ","E","_","N","O","T","_","I","N","I","T","I","A","L","I","Z","E","D",":"," ","u","6","4"," ","="," ","1",";","\n">>
 \o <<" "," "," "," ","c","o","n","s","t"," ","E","_","I","N","S","U","F","F","I","C","I","E","N","T","_","B","A","L","A","N","C","E",":"," ","u","6","4"," ","="," ","3",";","\n">>
 \o <<"\n">>
 \o <<" "," "," "," ","s","t","r","u","c","t"," ","B","a","l","a","n","c","e"," ","h","a","s"," ","k","e","y"," ","{","\n">>
 \o <<" "," "," "," "," "," "," "," ","v","a","l","u","e",":"," ","u","6","4","\n">>
 \o <<" "," "," "," ","}","\n">>
 \o <<"\n">>
 \o <<" "," "," "," ","p","u","b","l","i","c"," ","f","u","n"," ","i","n","i","t","i","a","l","i","z","e","(","a","c","c","o","u","n","t",":"," ","&","s","i","g","n","e","r",","," ","i","n","i","t","i","a","l",":"," ","u","6","4",")"," ","{","\n">>
 \o <<" "," "," "," "," "," "," "," ","m","o","v","e","_","t","o","(","a","c","c","o","u","n","t",","," ","B","a","l","a","n","c","e"," ","{"," ","v","a","l","u","e",":"," ","i","n","i","t","i","a","l"," ","}",")",";","\n">>
 \o <<" "," "," "," ","}","\n">>
 \o <<"\n">>
 \o <<" "," "," "," ","p","u","b","l","i","c"," ","e","n","t","r","y"," ","f","u","n"," ","t","r","a","n","s","f","e","r","(","\n">>
 \o <<" "," "," "," "," "," "," "," ","f","r","o","m",":"," ","&","s","i","g","n","e","r",",","\n">>
 \o <<" "," "," "," "," "," "," "," ","t","o",":"," ","a","d","d","r","e","s","s",",","\n">>
 \o <<" "," "," "," "," "," "," "," ","a","m","o","u","n","t",":"," ","u","6","4","\n">>
 \o <<" "," "," "," ",")"," ","a","c","q","u","i","r","e","s"," ","B","a","l","a","n","c","e"," ","{","\n">>
 \o <<" "," "," "," "," "," "," "," ","l","e","t"," ","f","r","o","m","_","a","d","d","r"," ","="," ","s","i","g","n","e","r",":",":","a","d","d","r","e","s","s","_","o","f","(","f","r","o","m",")",";","\n">>
 \o <<" "," "," "," "," "," "," "," ","l","e","t"," ","f","r","o","m","_","b","a","l","a","n","c","e"," ","="," ","b","o","r","r","o","w","_","g","l","o","b","a","l","_","m","u","t","<","B","a","l","a","n","c","e",">","(","f","r","o","m","_","a","d","d","r",")",";","\n">>
 \o <<" "," "," "," "," "," "," "," ","\n">>
 \o <<" "," "," "," "," "," "," "," ","a","s","s","e","r","t","!","(","f","r","o","m","_","b","a","l","a","n","c","e",".","v","a","l","u","e"," ",">","="," ","a","m","o","u","n","t",","," ","E","_","I","N","S","U","F","F","I","C","I","E","N","T","_","B","A","L","A","N","C","E",")",";","\n">>
 \o <<" "," "," "," "," "," "," "," ","f","r","o","m","_","b","a","l","a","n","c","e",".","v","a","l","u","e"," ","="," ","f","r","o","m","_","b","a","l","a","n","c","e",".","v","a","l","u","e"," ","-"," ","a","m","o","u","n","t",";","\n">>
 \o <<"\n">>
 \o <<" "," "," "," "," "," "," "," ","i","f"," ","(","!","e","x","i","s","t","s","<","B","a","l","a","n","c","e",">","(","t","o",")",")"," ","{","\n">>
 \o <<" "," "," "," "," "," "," "," "," "," "," "," ","m","o","v","e","_","t","o","(","f","r","o","m",","," ","B","a","l","a","n","c","e"," ","{"," ","v","a","l","u","e",":"," ","a","m","o","u","n","t"," ","}",")",";","\n">>
 \o <<" "," "," "," "," "," "," "," ","}"," ","e","l","s","e"," ","{","\n">>
 \o <<" "," "," "," "," "," "," "," "," "," "," "," ","l","e","t"," ","t","o","_","b","a","l","a","n","c","e"," ","="," ","b","o","r","r","o","w","_","g","l","o","b","a","l","_","m","u","t","<","B","a","l","a","n","c","e",">","(","t","o",")",";","\n">>
 \o <<" "," "," "," "," "," "," "," "," "," "," "," ","t","o","_","b","a","l","a","n","c","e",".","v","a","l","u","e"," ","="," ","t","o","_","b","a","l","a","n","c","e",".","v","a","l","u","e"," ","+"," ","a","m","o","u","n","t",";","\n">>
 \o <<" "," "," "," "," "," "," "," ","}",";","\n">>
 \o <<" "," "," "," ","}","\n">>
 \o <<"}">>

ShellNFTBody == 
    <<"\n">>
 \o <<" "," "," "," ","u","s","e"," ","s","t","d",":",":","s","i","g","n","e","r",";","\n">>
 \o <<" "," "," "," ","u","s","e"," ","s","t","d",":",":","s","t","r","i","n","g",":",":","S","t","r","i","n","g",";","\n">>
 \o <<" "," "," "," ","u","s","e"," ","s","t","d",":",":","v","e","c","t","o","r",";","\n">>
 \o <<"\n">>
 \o <<" "," "," "," ","s","t","r","u","c","t"," ","N","F","T","C","o","l","l","e","c","t","i","o","n"," ","h","a","s"," ","k","e","y"," ","{","\n">>
 \o <<" "," "," "," "," "," "," "," ","t","o","k","e","n","s",":"," ","v","e","c","t","o","r","<","N","F","T",">",",","\n">>
 \o <<" "," "," "," "," "," "," "," ","n","e","x","t","_","i","d",":"," ","u","6","4","\n">>
 \o <<" "," "," "," ","}","\n">>
 \o <<"\n">>
 \o <<" "," "," "," ","s","t","r","u","c","t"," ","N","F","T"," ","h","a","s"," ","s","t","o","r","e",","," ","d","r","o","p"," ","{","\n">>
 \o <<" "," "," "," "," "," "," "," ","i","d",":"," ","u","6","4",",","\n">>
 \o <<" "," "," "," "," "," "," "," ","n","a","m","e",":"," ","S","t","r","i","n","g",",","\n">>
 \o <<" "," "," "," "," "," "," "," ","u","r","i",":"," ","S","t","r","i","n","g",",","\n">>
 \o <<" "," "," "," "," "," "," "," ","o","w","n","e","r",":"," ","a","d","d","r","e","s","s","\n">>
 \o <<" "," "," "," ","}","\n">>
 \o <<"\n">>
 \o <<" "," "," "," ","p","u","b","l","i","c"," ","f","u","n"," ","i","n","i","t","i","a","l","i","z","e","(","a","c","c","o","u","n","t",":"," ","&","s","i","g","n","e","r",")"," ","{","\n">>
 \o <<" "," "," "," "," "," "," "," ","m","o","v","e","_","t","o","(","a","c","c","o","u","n","t",","," ","N","F","T","C","o","l","l","e","c","t","i","o","n"," ","{","\n">>
 \o <<" "," "," "," "," "," "," "," "," "," "," "," ","t","o","k","e","n","s",":"," ","v","e","c","t","o","r",":",":","e","m","p","t","y","<","N","F","T",">","(",")",",","\n">>
 \o <<" "," "," "," "," "," "," "," "," "," "," "," ","n","e","x","t","_","i","d",":"," ","0","\n">>
 \o <<" "," "," "," "," "," "," "," ","}",")",";","\n">>
 \o <<" "," "," "," ","}","\n">>
 \o <<"\n">>
 \o <<" "," "," "," ","p","u","b","l","i","c"," ","e","n","t","r","y"," ","f","u","n"," ","m","i","n","t","_","n","f","t","(","\n">>
 \o <<" "," "," "," "," "," "," "," ","a","c","c","o","u","n","t",":"," ","&","s","i","g","n","e","r",",","\n">>
 \o <<" "," "," "," "," "," "," "," ","n","a","m","e",":"," ","S","t","r","i","n","g",",","\n">>
 \o <<" "," "," "," "," "," "," "," ","u","r","i",":"," ","S","t","r","i","n","g","\n">>
 \o <<" "," "," "," ",")"," ","a","c","q","u","i","r","e","s"," ","N","F","T","C","o","l","l","e","c","t","i","o","n"," ","{","\n">>
 \o <<" "," "," "," "," "," "," "," ","l","e","t"," ","a","c","c","o","u","n","t","_","a","d","d","r"," ","="," ","s","i","g","n","e","r",":",":","a","d","d","r","e","s","s","_","o","f","(","a","c","c","o","u","n","t",")",";","\n">>
 \o <<" "," "," "," "," "," "," "," ","l","e","t"," ","c","o","l","l","e","c","t","i","o","n"," ","="," ","b","o","r","r","o","w","_","g","l","o","b","a","l","_","m","u","t","<","N","F","T","C","o","l","l","e","c","t","i","o","n",">","(","a","c","c","o","u","n","t","_","a","d","d","r",")",";","\n">>
 \o <<" "," "," "," "," "," "," "," ","\n">>
 \o <<" "," "," "," "," "," "," "," ","l","e","t"," ","n","e","w","_","n","f","t"," ","="," ","N","F","T"," ","{","\n">>
 \o <<" "," "," "," "," "," "," "," "," "," "," "," ","i","d",":"," ","c","o","l","l","e","c","t","i","o","n",".","n","e","x","t","_","i","d",",","\n">>
 \o <<" "," "," "," "," "," "," "," "," "," "," "," ","n","a","m","e",",","\n">>
 \o <<" "," "," "," "," "," "," "," "," "," "," "," ","u","r","i",",","\n">>
 \o <<" "," "," "," "," "," "," "," "," "," "," "," ","o","w","n","e","r",":"," ","a","c","c","o","u","n","t","_","a","d","d","r","\n">>
 \o <<" "," "," "," "," "," "," "," ","}",";","\n">>
 \o <<"\n">>
 \o <<" "," "," "," "," "," "," "," ","v","e","c","t","o","r",":",":","p","u","s","h","_","b","a","c","k","(","&","m","u","t"," ","c","o","l","l","e","c","t","i","o","n",".","t","o","k","e","n","s",","," ","n","e","w","_","n","f","t",")",";","\n">>
 \o <<" "," "," "," "," "," "," "," ","c","o","l","l","e","c","t","i","o","n",".","n","e","x","t","_","i","d"," ","="," ","c","o","l","l","e","c","t","i","o","n",".","n","e","x","t","_","i","d"," ","+"," ","1",";","\n">>
 \o <<" "," "," "," ","}","\n">>
 \o <<"}">>

ShellMarketplaceBody == 
    <<"\n">>
 \o <<" "," "," "," ","u","s","e"," ","s","t","d",":",":","s","i","g","n","e","r",";","\n">>
 \o <<" "," "," "," ","u","s","e"," ","s","t","d",":",":","v","e","c","t","o","r",";","\n">>
 \o <<"\n">>
 \o <<" "," "," "," ","s","t","r","u","c","t"," ","L","i","s","t","i","n","g"," ","h","a","s"," ","s","t","o","r","e",","," ","d","r","o","p"," ","{","\n">>
 \o <<" "," "," "," "," "," "," "," ","i","d",":"," ","u","6","4",",","\n">>
 \o <<" "," "," "," "," "," "," "," ","s","e","l","l","e","r",":"," ","a","d","d","r","e","s","s",",","\n">>
 \o <<" "," "," "," "," "," "," "," ","p","r","i","c","e",":"," ","u","6","4",",","\n">>
 \o <<" "," "," "," "," "," "," "," ","a","c","t","i","v","e",":"," ","b","o","o","l","\n">>
 \o <<" "," "," "," ","}","\n">>
 \o <<"\n">>
 \o <<" "," "," "," ","s","t","r","u","c","t"," ","M","a","r","k","e","t","p","l","a","c","e","D","a","t","a"," ","h","a","s"," ","k","e","y"," ","{","\n">>
 \o <<" "," "," "," "," "," "," "," ","l","i","s","t","i","n","g","s",":"," ","v","e","c","t","o","r","<","L","i","s","t","i","n","g",">",",","\n">>
 \o <<" "," "," "," "," "," "," "," ","n","e","x","t","_","i","d",":"," ","u","6","4","\n">>
 \o <<" "," "," "," ","}","\n">>
 \o <<"\n">>
 \o <<" "," "," "," ","p","u","b","l","i","c"," ","f","u","n"," ","i","n","i","t","i","a","l","i","z","e","(","a","c","c","o","u","n","t",":"," ","&","s","i","g","n","e","r",")"," ","{","\n">>
 \o <<" "," "," "," "," "," "," "," ","m","o","v","e","_","t","o","(","a","c","c","o","u","n","t",","," ","M","a","r","k","e","t","p","l","a","c","e","D","a","t","a"," ","{","\n">>
 \o <<" "," "," "," "," "," "," "," "," "," "," "," ","l","i","s","t","i","n","g","s",":"," ","v","e","c","t","o","r",":",":","e","m","p","t","y","<","L","i","s","t","i","n","g",">","(",")",",","\n">>
 \o <<" "," "," "," "," "," "," "," "," "," "," "," ","n","e","x","t","_","i","d",":"," ","0","\n">>
 \o <<" "," "," "," "," "," "," "," ","}",")",";","\n">>
 \o <<" "," "," "," ","}","\n">>
 \o <<"}">>

shellGenerateModule(p) ==
    LET moduleName == OrElse(ParamGet(p, "name"), <<"M","y","M","o","d","u","l","e">>)
        address    == OrElse(ParamGet(p, "address"), <<"0","x","1">>)
    IN  ModuleHeader(address, moduleName) \o ShellModuleBody

shellGenerateTokenContract(p) ==
    LET moduleName == OrElse(ParamGet(p, "name"), <<"M","y","T","o","k","e","n">>)
        address    == OrElse(ParamGet(p, "address"), <<"0","x","1">>)
    IN  ModuleHeader(address, moduleName) \o ShellTokenBody

shellGenerateNFTContract(p) ==
    LET moduleName == OrElse(ParamGet(p, "name"), <<"M","y","N","F","T">>)
        address    == OrElse(ParamGet(p, "address"), <<"0","x","1">>)
    IN  ModuleHeader(address, moduleName) \o ShellNFTBody

shellGenerateMarketplace(p) ==
    LET moduleName == OrElse(ParamGet(p, "name"), <<"M","a","r","k","e","t","p","l","a","c","e">>)
        address    == OrElse(ParamGet(p, "address"), <<"0","x","1">>)
    IN  ModuleHeader(address, moduleName) \o ShellMarketplaceBody

shellGenerateCode(intent, p) ==
    LET intentLower == toLowerCase(intent)
    IN  IF includes(intentLower, <<"t","o","k","e","n">>) \/ includes(intentLower, <<"c","o","i","n">>)
        THEN shellGenerateTokenContract(p)
        ELSE IF includes(intentLower, <<"n","f","t">>)
        THEN shellGenerateNFTContract(p)
        ELSE IF includes(intentLower, <<"m","a","r","k","e","t","p","l","a","c","e">>)
        THEN shellGenerateMarketplace(p)
        ELSE IF includes(intentLower, <<"m","o","d","u","l","e">>)
        THEN shellGenerateModule(p)
        ELSE Fallback

ShellAbilitiesText == 
    <<"M","o","v","e"," ","A","b","i","l","i","t","i","e","s",":","\n">>
 \o <<"-"," ","k","e","y",":"," ","C","a","n"," ","b","e"," ","s","t","o","r","e","d"," ","i","n"," ","g","l","o","b","a","l"," ","s","t","o","r","a","g","e","\n">>
 \o <<"-"," ","s","t","o","r","e",":"," ","C","a","n"," ","b","e"," ","s","t","o","r","e","d"," ","i","n","s","i","d","e"," ","o","t","h","e","r"," ","s","t","r","u","c","t","s","\n">>
 \o <<"-"," ","c","o","p","y",":"," ","C","a","n"," ","b","e"," ","c","o","p","i","e","d","\n">>
 \o <<"-"," ","d","r","o","p",":"," ","C","a","n"," ","b","e"," ","d","r","o","p","p","e","d","/","d","e","s","t","r","o","y","e","d","\n">>
 \o <<"\n">>
 \o <<"E","x","a","m","p","l","e",":"," ","s","t","r","u","c","t"," ","M","y","R","e","s","o","u","r","c","e"," ","h","a","s"," ","k","e","y",","," ","s","t","o","r","e"," ","{"," ",".",".","."," ","}">>

ShellResourcesText == 
    <<"M","o","v","e"," ","R","e","s","o","u","r","c","e","s",":","\n">>
 \o <<"-"," ","S","t","r","u","c","t","s"," ","w","i","t","h"," ","t","h","e"," ","'","k","e","y","'"," ","a","b","i","l","i","t","y","\n">>
 \o <<"-"," ","C","a","n"," ","b","e"," ","s","t","o","r","e","d"," ","i","n"," ","g","l","o","b","a","l"," ","s","t","o","r","a","g","e","\n">>
 \o <<"-"," ","C","a","n","n","o","t"," ","b","e"," ","c","o","p","i","e","d"," ","o","r"," ","d","r","o","p","p","e","d"," ","(","l","i","n","e","a","r"," ","t","y","p","e","s",")","\n">>
 \o <<"-"," ","A","c","c","e","s","s","e","d"," ","w","i","t","h"," ","m","o","v","e","_","t","o","(",")",","," ","b","o","r","r","o","w","_","g","l","o","b","a","l","(",")",","," ","e","x","i","s","t","s","(",")">>

ShellAcquiresText == 
    <<"A","c","q","u","i","r","e","s"," ","K","e","y","w","o","r","d",":","\n">>
 \o <<"F","u","n","c","t","i","o","n","s"," ","t","h","a","t"," ","a","c","c","e","s","s"," ","g","l","o","b","a","l"," ","s","t","o","r","a","g","e"," ","m","u","s","t"," ","d","e","c","l","a","r","e"," ","w","h","i","c","h"," ","r","e","s","o","u","r","c","e","s",".","\n">>
 \o <<"\n">>
 \o <<"E","x","a","m","p","l","e",":","\n">>
 \o <<"p","u","b","l","i","c"," ","f","u","n"," ","t","r","a","n","s","f","e","r","(",")"," ","a","c","q","u","i","r","e","s"," ","B","a","l","a","n","c","e"," ","{","\n">>
 \o <<" "," "," "," ","l","e","t"," ","b","a","l","a","n","c","e"," ","="," ","b","o","r","r","o","w","_","g","l","o","b","a","l","_","m","u","t","<","B","a","l","a","n","c","e",">","(","a","d","d","r",")",";","\n">>
 \o <<"}">>

\* Object.entries(explanations) of the shell's copy
shellExplanations ==
    << [key |-> <<"a","b","i","l","i","t","i","e","s">>, explanation |-> ShellAbilitiesText],
       [key |-> <<"r","e","s","o","u","r","c","e","s">>, explanation |-> ShellResourcesText],
       [key |-> <<"a","c","q","u","i","r","e","s">>,  explanation |-> ShellAcquiresText] >>

ShellConceptNotFound == <<"C","o","n","c","e","p","t"," ","n","o","t"," ","f","o","u","n","d","."," ","T","r","y",":"," ","a","b","i","l","i","t","i","e","s",","," ","r","e","s","o","u","r","c","e","s",","," ","a","c","q","u","i","r","e","s">>

RECURSIVE ShellExplainLoop(_, _, _)
ShellExplainLoop(entries, i, conceptLower) ==
    IF i > Len(entries) THEN ShellConceptNotFound
    ELSE IF includes(conceptLower, entries[i].key) THEN entries[i].explanation
    ELSE ShellExplainLoop(entries, i + 1, conceptLower)

shellExplainConcept(concept) == ShellExplainLoop(shellExplanations, 1, toLowerCase(concept))

ShellAcquiresWarning == "(!)  Missing 'acquires' declaration"
ShellKeyWarning == "(!)  Resource needs 'key' ability"
ShellConstSuggestion == "(i) Add error constants"
ShellNoIssues == "(ok) Code looks good!"

\* if (code.includes("borrow_global") && !code.includes("acquires")) issues.push(...)
ShellAcquiresRule(code, issues) ==
    IF includes(code, <<"b","o","r","r","o","w","_","g","l","o","b","a","l">>) /\ ~includes(code, <<"a","c","q","u","i","r","e","s">>)
    THEN Append(issues, ShellAcquiresWarning)
    ELSE issues

\* if (code.includes("move_to") && code.includes("struct") && !code.includes("has key")) ...
ShellKeyRule(code, issues) ==
    IF includes(code, <<"m","o","v","e","_","t","o">>) /\ includes(code, <<"s","t","r","u","c","t">>) /\ ~includes(code, <<"h","a","s"," ","k","e","y">>)
    THEN Append(issues, ShellKeyWarning)
    ELSE issues

\* if (!code.includes("const E_")) issues.push(...)
ShellConstRule(code, issues) ==
    IF ~includes(code, <<"c","o","n","s","t"," ","E","_">>) THEN Append(issues, ShellConstSuggestion) ELSE issues

shellReviewCode(code) ==
    LET issues == ShellConstRule(code, ShellKeyRule(code, ShellAcquiresRule(code, <<>>)))
    IN  IF Len(issues) = 0 THEN <<ShellNoIssues>> ELSE issues

ShellGenerateCode(intent, p) ==
    /\ ret' = shellGenerateCode(intent, p)
    /\ lastOp' = "shell.generateCode"
    /\ UNCHANGED <<heap, held, arg, params, moveVars>>

ShellExplainConcept(concept) ==
    /\ ret' = shellExplainConcept(concept)
    /\ lastOp' = "shell.explainConcept"
    /\ UNCHANGED <<heap, held, arg, params, moveVars>>

ShellReviewCode(code) ==
    /\ ret' = shellReviewCode(code)
    /\ lastOp' = "shell.reviewCode"
    /\ UNCHANGED <<heap, held, arg, params, moveVars>>

\* one call of the shell's facade, over the intents, source texts and concepts
ShellInit == PendingInit(IntentInputs \cup ReviewInputs \cup ConceptInputs, ParamChoices)
ShellNext ==
    /\ lastOp = "pending"
    /\ \/ ShellGenerateCode(arg, params)
       \/ ShellReviewCode(arg)
       \/ ShellExplainConcept(arg)
ShellSpec == ShellInit /\ [][ShellNext]_vars

----------------------------------------------------------------------------
(* The claims.                                                             *)

\* whether s begins with prefix
StartsWith(s, prefix) == MatchAt(s, prefix, 1)

\* whether list a is a prefix of list b
IsPrefix(a, b) == Len(a) <= Len(b) /\ \A i \in 1..Len(a) : a[i] = b[i]

\* whether a list holds no entry twice
NoDuplicates(a) == \A i \in 1..Len(a), j \in 1..Len(a) : a[i] = a[j] => i = j

\* whether x is an entry of list a
Holds(a, x) == \E i \in 1..Len(a) : a[i] = x

\* C1: generateCode lower-cases the intent and picks one outcome by the first
\* rule that matches, in the order token or coin, nft, marketplace, module,
\* fallback: an intent with token and nft gives the Token output and not the
\* NFT output, and an intent with none of the keywords gives the fallback.
C1_FirstMatchWins ==
    lastOp = "generateCode" =>
        LET low      == toLowerCase(arg)
            isToken  == includes(low, <<"t","o","k","e","n">>) \/ includes(low, <<"c","o","i","n">>)
            isNft    == includes(low, <<"n","f","t">>)
            isMarket == includes(low, <<"m","a","r","k","e","t","p","l","a","c","e">>)
            isModule == includes(low, <<"m","o","d","u","l","e">>)
        IN  /\ isToken => ret = generateTokenContract(params)
            /\ ~isToken /\ isNft => ret = generateNFTContract(params)
            /\ ~isToken /\ ~isNft /\ isMarket => ret = generateMarketplace(params)
            /\ ~isToken /\ ~isNft /\ ~isMarket /\ isModule => ret = generateModule(params)
            /\ ~isToken /\ ~isNft /\ ~isMarket /\ ~isModule => ret = Fallback
            /\ isToken /\ isNft => ret # generateNFTContract(params)
            /\ arg = <<"T","o","K","E","N">> => ret = generateTokenContract(params)
            /\ arg = <<"t","o","k","e","n","N","F","T">> => ret = generateTokenContract(params)
            /\ arg = <<"c","r","e","a","t","e"," ","a"," ">> => ret = Fallback

\* an intent with both token and nft was given, and the Token contract came back
C1_Witness ==
    /\ lastOp = "generateCode"
    /\ includes(toLowerCase(arg), <<"t","o","k","e","n">>)
    /\ includes(toLowerCase(arg), <<"n","f","t">>)
    /\ ret = generateTokenContract(params)

\* the balances the claim expects after transfer(from, to, amount)
ExpectedTransfer(bal, from, to, amount) ==
    LET debited == [bal EXCEPT ![from] = @ - amount]
        created == IF Exists(debited, to) THEN debited ELSE MoveTo(debited, to, 0)
    IN  [created EXCEPT ![to] = @ + amount]

\* C2: a Token transfer whose sender holds at least the amount succeeds, debits
\* the sender and credits the recipient by the amount, and creates the
\* recipient's Balance when the recipient has none.
C2_TransferCredits ==
    [][ ( /\ lastOp' = "transfer"
          /\ Exists(balances, arg'.from)
          /\ balances[arg'.from] >= arg'.amount )
        => ( /\ status' = "ok"
             /\ balances' = ExpectedTransfer(balances, arg'.from, arg'.to, arg'.amount) )
      ]_vars

\* C3: what getContext returned is a snapshot: a later analyzeCode does not
\* change what the caller reads through it, and the caller's writes to it do
\* not change the facade's context.
C3_SnapshotCopy ==
    /\ [][ (held # NoRef /\ held' = held /\ lastOp' = "analyzeCode")
           => heap'[held] = heap[held] ]_vars
    /\ [][ lastOp' \in {"callerPush", "callerPop"} => context' = context ]_vars

\* C4: no list of the context holds a string twice, and over every call each
\* list as it was is a prefix of the list as it is.
C4_AppendOnlyNoDuplicates ==
    /\ [](\A l \in ListNames : NoDuplicates(context[l]))
    /\ [][ \A l \in ListNames : IsPrefix(context[l], context'[l]) ]_vars

\* analyzeCode has run more than once and grown lists past one entry
C4_Witness ==
    /\ lastOp = "analyzeCode"
    /\ Len(context.modules) >= 3
    /\ Len(context.functions) = 2
    /\ Len(context.structs) = 1

\* C5 as first stated: reviewCode gives the acquires warning exactly when the
\* source has a mutable borrow (borrow_global_mut) and no "acquires".
C5_MutableBorrowOnly ==
    lastOp = "reviewCode" =>
        ( Holds(ret, AcquiresWarning)
          <=> (includes(arg, <<"b","o","r","r","o","w","_","g","l","o","b","a","l","_","m","u","t">>) /\ ~includes(arg, <<"a","c","q","u","i","r","e","s">>)) )

\* C5, amended: reviewCode gives the acquires warning exactly when the source
\* has "borrow_global" in it (a mutable or an immutable borrow) and no
\* "acquires".
C5_AnyGlobalBorrow ==
    lastOp = "reviewCode" =>
        ( Holds(ret, AcquiresWarning)
          <=> (includes(arg, <<"b","o","r","r","o","w","_","g","l","o","b","a","l">>) /\ ~includes(arg, <<"a","c","q","u","i","r","e","s">>)) )

\* a source with an immutable borrow only, and no acquires, was warned about
C5_Witness ==
    /\ lastOp = "reviewCode"
    /\ includes(arg, <<"b","o","r","r","o","w","_","g","l","o","b","a","l">>)
    /\ ~includes(arg, <<"b","o","r","r","o","w","_","g","l","o","b","a","l","_","m","u","t">>)
    /\ ~includes(arg, <<"a","c","q","u","i","r","e","s">>)
    /\ Holds(ret, AcquiresWarning)

\* C6: reviewCode returns a non-empty list: the confirmation alone when no
\* rule triggers, and otherwise one finding for each rule that triggers, none
\* suppressing another, acquires warning before key warning before constant
\* suggestion; the confirmation never stands beside a finding.
C6_OneFindingPerRule ==
    lastOp = "reviewCode" =>
        LET acq   == includes(arg, <<"b","o","r","r","o","w","_","g","l","o","b","a","l">>) /\ ~includes(arg, <<"a","c","q","u","i","r","e","s">>)
            key   == includes(arg, <<"m","o","v","e","_","t","o">>) /\ includes(arg, <<"s","t","r","u","c","t">>)
                     /\ ~includes(arg, <<"h","a","s"," ","k","e","y">>)
            const == ~includes(arg, <<"c","o","n","s","t"," ","E","_">>)
            findings == (IF acq THEN <<AcquiresWarning>> ELSE <<>>)
                        \o (IF key THEN <<KeyWarning>> ELSE <<>>)
                        \o (IF const THEN <<ConstSuggestion>> ELSE <<>>)
        IN  /\ Len(ret) >= 1
            /\ (~acq /\ ~key /\ ~const) <=> ret = <<NoIssues>>
            /\ (acq \/ key \/ const) => ret = findings
            /\ Holds(ret, NoIssues) => Len(ret) = 1

\* all three rules triggered on one source
C6_Witness ==
    /\ lastOp = "reviewCode"
    /\ ret = <<AcquiresWarning, KeyWarning, ConstSuggestion>>

\* C7: reviewCode, generateCode and explainConcept leave the context as it
\* was, and the context changes only in an analyzeCode call.
C7_OnlyAnalyzeWrites ==
    /\ [][ lastOp' \in {"reviewCode", "generateCode", "explainConcept"}
           => context' = context ]_vars
    /\ [][ context' # context => lastOp' = "analyzeCode" ]_vars

\* reviewCode ran on a context that analyzeCode had filled
C7_Witness ==
    /\ lastOp = "reviewCode"
    /\ Len(context.modules) >= 1
    /\ Len(context.structs) >= 1
    /\ Len(context.functions) >= 1

\* C8: each mint appends an item whose id is the counter at that time and adds
\* one to the counter: a collection holds ids 0..n-1 in order, its counter is
\* its length, and the counter never goes down.
C8_MintNumbersItems ==
    /\ [](\A a \in DOMAIN collections :
             /\ collections[a].next_id = Len(collections[a].tokens)
             /\ \A i \in 1..Len(collections[a].tokens) : collections[a].tokens[i].id = i - 1)
    /\ [][ (lastOp' = "mint_nft" /\ status' = "ok")
           => LET a == arg'.account
              IN  /\ Len(collections'[a].tokens) = Len(collections[a].tokens) + 1
                  /\ IsPrefix(collections[a].tokens, collections'[a].tokens)
                  /\ collections'[a].tokens[Len(collections'[a].tokens)].id
                         = collections[a].next_id
                  /\ collections'[a].next_id = collections[a].next_id + 1 ]_vars
    /\ [][ \A a \in DOMAIN collections :
              /\ a \in DOMAIN collections'
              /\ collections'[a].next_id >= collections[a].next_id ]_vars

\* a collection was minted into until it held three items
C8_Witness ==
    /\ lastOp = "mint_nft"
    /\ status = "ok"
    /\ \E a \in DOMAIN collections : Len(collections[a].tokens) >= 3

\* C9: explainConcept lower-cases the concept and returns the explanation of
\* the first of abilities, resources, acquires, signer that occurs in it, and
\* the not-found string when none does, the empty string included.
C9_FirstGlossaryName ==
    lastOp = "explainConcept" =>
        LET low == toLowerCase(arg)
        IN  /\ ret = IF includes(low, <<"a","b","i","l","i","t","i","e","s">>) THEN AbilitiesText
                     ELSE IF includes(low, <<"r","e","s","o","u","r","c","e","s">>) THEN ResourcesText
                     ELSE IF includes(low, <<"a","c","q","u","i","r","e","s">>) THEN AcquiresText
                     ELSE IF includes(low, <<"s","i","g","n","e","r">>) THEN SignerText
                     ELSE ConceptNotFound
            /\ arg = <<"A","c","q","u","i","r","e","s">> => ret = AcquiresText
            /\ arg = <<"s","i","g","n","e","r","A","c","q","u","i","r","e","s">> => ret = AcquiresText
            /\ arg = <<"b","a","n","a","n","a">> => ret = ConceptNotFound
            /\ arg = <<>> => ret = ConceptNotFound

\* a concept naming signer before acquires got the acquires explanation
C9_Witness ==
    /\ lastOp = "explainConcept"
    /\ StartsWith(arg, <<"s","i","g","n","e","r">>)
    /\ includes(arg, <<"A","c","q","u","i","r","e","s">>)
    /\ ret = AcquiresText

\* whether the params object gives key k a non-empty value
Given(p, k) == k \in DOMAIN p /\ p[k] # <<>>

\* C10: each generator's header has the address and the name given, "0x1"
\* for an address absent or empty, and the archetype's default name for a name
\* absent or empty, the one defaulted whatever the other is.
C10_HeaderDefaults ==
    lastOp = "generateCode" =>
        LET address == IF Given(params, "address") THEN params["address"] ELSE <<"0","x","1">>
            Header(default) ==
                <<"m","o","d","u","l","e"," ">> \o address \o <<":",":">>
                \o (IF Given(params, "name") THEN params["name"] ELSE default)
                \o <<" ","{","\n">>
        IN  /\ ret = generateTokenContract(params) => StartsWith(ret, Header(<<"M","y","T","o","k","e","n">>))
            /\ ret = generateNFTContract(params) => StartsWith(ret, Header(<<"M","y","N","F","T">>))
            /\ ret = generateMarketplace(params) => StartsWith(ret, Header(<<"M","a","r","k","e","t","p","l","a","c","e">>))
            /\ ret = generateModule(params) => StartsWith(ret, Header(<<"M","y","M","o","d","u","l","e">>))

\* an NFT contract came back for an empty name and a given address
C10_Witness ==
    /\ lastOp = "generateCode"
    /\ params = MakeParams(<<>>, <<"0","x","C","A","F","E">>)
    /\ StartsWith(ret, <<"m","o","d","u","l","e"," ","0","x","C","A","F","E",":",":","M","y","N","F","T"," ","{","\n">>)

\* which archetype a returned text is, by the generators of the core and of the shell
CoreArchetype(text, p) ==
    CASE text = generateTokenContract(p) -> "Token"
      [] text = generateNFTContract(p)   -> "NFT"
      [] text = generateMarketplace(p)   -> "Marketplace"
      [] text = generateModule(p)        -> "Module"
      [] OTHER                           -> "Unrecognized"
ShellArchetype(text, p) ==
    CASE text = shellGenerateTokenContract(p) -> "Token"
      [] text = shellGenerateNFTContract(p)   -> "NFT"
      [] text = shellGenerateMarketplace(p)   -> "Marketplace"
      [] text = shellGenerateModule(p)        -> "Module"
      [] OTHER                                -> "Unrecognized"

\* which rules a list of findings stands for
CoreRules(findings) ==
    {r \in {"acquires", "key", "const"} :
        Holds(findings, CASE r = "acquires" -> AcquiresWarning
                          [] r = "key"      -> KeyWarning
                          [] r = "const"    -> ConstSuggestion)}
ShellRules(findings) ==
    {r \in {"acquires", "key", "const"} :
        Holds(findings, CASE r = "acquires" -> ShellAcquiresWarning
                          [] r = "key"      -> ShellKeyWarning
                          [] r = "const"    -> ShellConstSuggestion)}

\* which glossary entry an explanation is
CoreEntry(text) ==
    IF \E i \in 1..Len(explanations) : explanations[i].explanation = text
    THEN explanations[CHOOSE i \in 1..Len(explanations) : explanations[i].explanation = text].key
    ELSE <<"n","o","t"," ","f","o","u","n","d">>
ShellEntry(text) ==
    IF \E i \in 1..Len(shellExplanations) : shellExplanations[i].explanation = text
    THEN shellExplanations[CHOOSE i \in 1..Len(shellExplanations) :
                              shellExplanations[i].explanation = text].key
    ELSE <<"n","o","t"," ","f","o","u","n","d">>

\* C11: the shell's facade behaves as the core's: on every input its
\* generateCode picks the same archetype or the fallback, its reviewCode
\* triggers the same rules, and its explainConcept picks the same glossary
\* entry or not-found.
C11_ShellAsCore ==
    /\ lastOp = "shell.generateCode"
          => ShellArchetype(ret, params) = CoreArchetype(generateCode(arg, params), params)
    /\ lastOp = "shell.reviewCode" => ShellRules(ret) = CoreRules(reviewCode(arg))
    /\ lastOp = "shell.explainConcept" => ShellEntry(ret) = CoreEntry(explainConcept(arg))

\* C12: reviewCode on the text generateCode returned gives the confirmation
\* alone for every intent of a recognized archetype and every params object,
\* and the error-constant suggestion alone for the fallback text.
C12_GeneratedCodeReviewsClean ==
    (lastOp = "reviewCode") =>
        LET low == toLowerCase(arg)
            recognized == \/ includes(low, <<"t","o","k","e","n">>) \/ includes(low, <<"c","o","i","n">>)
                          \/ includes(low, <<"n","f","t">>) \/ includes(low, <<"m","a","r","k","e","t","p","l","a","c","e">>)
                          \/ includes(low, <<"m","o","d","u","l","e">>)
        IN  /\ recognized => ret = <<NoIssues>>
            /\ ~recognized => ret = <<ConstSuggestion>>

\* a Module contract generated from params that name move_to, struct and
\* borrow_global was reviewed and found clean
C12_Witness ==
    /\ lastOp = "reviewCode"
    /\ includes(toLowerCase(arg), <<"m","o","d","u","l","e">>)
    /\ ~includes(toLowerCase(arg), <<"t","o","k","e","n">>)
    /\ params = MakeParams(<<"m","o","v","e","_","t","o"," ","s","t","r","u","c","t">>, <<"b","o","r","r","o","w","_","g","l","o","b","a","l">>)
    /\ ret = <<NoIssues>>

====
